---- MODULE Spec2Model ----
(***************************************************************************)
(* Model of the IMU serial driver: the framing state machine of IMUParser  *)
(* (src/src/imu_parser.cpp) and the connection manager IMUReader           *)
(* (src/src/imu_reader.cpp) with its caller thread, its acquisition thread *)
(* (readThread) and its health thread (hotplugThread).                     *)
(*                                                                         *)
(* A critical section of the code is two steps here: the step that takes   *)
(* serial_mutex_ (pc "..._lock" -> "..._cs") and the step that runs the    *)
(* body and releases the mutex.  Where the code sleeps inside the scope of *)
(* its lock_guard, the body step keeps the mutex and a further step        *)
(* (pc "..._sleep") ends the sleep and releases it.                        *)
(*                                                                         *)
(* The serial library is an external collaborator: read, write, the        *)
(* constructor (open) and available() report success or failure chosen by  *)
(* the environment; close() and isOpen() do not fail.                      *)
(***************************************************************************)
EXTENDS Integers, Sequences, FiniteSets, TLC

(***************************************************************************)
(* Bounds of the model.                                                    *)
(***************************************************************************)
\* reconnect()'s max_wait is 50 polls; the behaviour depends only on whether
\* the limit is reached, so the model polls at most MaxWait times.
MaxWait == 1
\* initialize() sets max_reconnect_ to 0 (no limit) or to MaxReconnectCfg.
MaxReconnectCfg == 2
\* The device delivers at most MaxBytes bytes in a run.
MaxBytes == 1
\* reconnect_count_ is an int that reconnect() increments with every attempt
\* and without limit.  An attempt fails when the device file has gone or
\* when open() refuses; an outage of the model has at most MaxFaults such
\* faults, so the counter stays within MaxFaults + 1.
MaxFaults == 2
\* ParserSpec gives processByte at most MaxFeed bytes between two resets.
MaxFeed == 7
\* CodecSpec draws bodies of 1..MaxShort bytes besides those of the sizes at
\* which packAndSend and processByte change their answer.
MaxShort == 2
\* SensorSpec draws 0x11 bodies of 0..MaxSensorLen bytes; a body that holds
\* every group has 7 + 46 = 53, and processByte accepts none above 73.
MaxSensorLen == 73

(***************************************************************************)
(* Protocol constants (src/include/imu_parser.h).                          *)
(***************************************************************************)
CMD_PACKET_BEGIN == 73
CMD_PACKET_END == 77
CMD_PACKET_MAX_DAT_SIZE_RX == 73
CMD_PACKET_MAX_DAT_SIZE_TX == 31
RxBufferSize == 5 + CMD_PACKET_MAX_DAT_SIZE_RX

U8(x) == x % 256

(***************************************************************************)
(* IMUParser: the receive state.                                           *)
(***************************************************************************)
\* the content of a cell of rx_buffer_ that no statement has written yet: the
\* constructor's initialiser list leaves the array out, so a cell holds
\* whatever the allocation held, which is no byte the program has chosen
Indeterminate == -1

\* IMUParser::IMUParser()
ParserInit ==
    [rx_state |-> "WAIT_BEGIN", rx_index |-> 0, rx_cmd_len |-> 0,
     rx_checksum |-> 0,
     rx_buffer |-> [i \in 0..(RxBufferSize - 1) |-> Indeterminate]]

\* a reset() that clears the buffer and the counters and leaves the parser
\* waiting for an address
ParserResetToAddress(p) ==
    [p EXCEPT !.rx_state = "ADDRESS", !.rx_index = 0, !.rx_cmd_len = 0,
              !.rx_checksum = 0,
              !.rx_buffer = [i \in 0..(RxBufferSize - 1) |-> 0]]

\* IMUParser::reset()
ParserReset(p) ==
    [p EXCEPT !.rx_state = "WAIT_BEGIN", !.rx_index = 0, !.rx_cmd_len = 0,
              !.rx_checksum = 0,
              !.rx_buffer = [i \in 0..(RxBufferSize - 1) |-> 0]]

\* rx_buffer_[rx_index_++] = b
Store(p, b) ==
    [p EXCEPT !.rx_buffer = [p.rx_buffer EXCEPT ![p.rx_index] = b],
              !.rx_index = U8(p.rx_index + 1)]

\* a parseSensorData that never calls the data callback
CallbackNever(cmd, dLen) == FALSE

\* an unpackData that takes every command for a sensor report
CallbackFiresAnyCommand(cmd, dLen) == dLen >= 7

\* IMUParser::unpackData / parseSensorData: is the data callback invoked for
\* the body buf[0..dLen-1] ?
CallbackFires(cmd, dLen) == dLen # 0 /\ cmd = 17 /\ dLen >= 7

\* processByte, line 40: the broadcast address
IsBroadcast(byte) == byte = 255

\* a LENGTH state that takes any byte for a length
LengthUnchecked(byte) == FALSE

\* line 50
InvalidLength(byte) == byte > CMD_PACKET_MAX_DAT_SIZE_RX \/ byte = 0

\* line 61
BodyComplete(q) == q.rx_index >= q.rx_cmd_len + 3

\* a CHECKSUM state that takes every byte for the checksum
ChecksumUnchecked(q, byte) == TRUE

\* a comparison that leaves out the top bit
ChecksumMatchesLow7(q, byte) == q.rx_checksum % 128 = byte % 128

\* line 69
ChecksumMatches(q, byte) == q.rx_checksum = byte

\* IMUParser::processByte.  The result holds the new state, the return value,
\* and, when unpackData is called, the data_len bytes from &rx_buffer_[3] on
\* that are handed to it; what lies behind the end of rx_buffer_ is no byte
\* of the buffer.
ProcessByte(p0, byte) ==
    LET p == [p0 EXCEPT !.rx_checksum = U8(p0.rx_checksum + byte)]
        none == [ret |-> FALSE, fwd |-> FALSE, body |-> <<>>]
    IN
    CASE p.rx_state = "WAIT_BEGIN" ->
           IF byte = CMD_PACKET_BEGIN
           THEN [p |-> [Store([p EXCEPT !.rx_index = 0], CMD_PACKET_BEGIN)
                          EXCEPT !.rx_checksum = 0, !.rx_state = "ADDRESS"]]
                @@ none
           ELSE [p |-> p] @@ none
      [] p.rx_state = "ADDRESS" ->
           [p |-> [Store(p, byte) EXCEPT
                     !.rx_state = IF IsBroadcast(byte) THEN "WAIT_BEGIN"
                                  ELSE "LENGTH"]]
           @@ none
      [] p.rx_state = "LENGTH" ->
           IF InvalidLength(byte)
           THEN [p |-> [Store(p, byte) EXCEPT !.rx_state = "WAIT_BEGIN"]] @@ none
           ELSE [p |-> [Store(p, byte) EXCEPT !.rx_cmd_len = byte,
                                               !.rx_state = "DATA"]] @@ none
      [] p.rx_state = "DATA" ->
           LET q == Store(p, byte) IN
           [p |-> IF BodyComplete(q)
                  THEN [q EXCEPT !.rx_state = "CHECKSUM"] ELSE q] @@ none
      [] p.rx_state = "CHECKSUM" ->
           LET q == [p EXCEPT !.rx_checksum = U8(p.rx_checksum - byte + 256)] IN
           IF ChecksumMatches(q, byte)
           THEN [p |-> [Store(q, byte) EXCEPT !.rx_state = "END"]] @@ none
           ELSE [p |-> [q EXCEPT !.rx_state = "WAIT_BEGIN"]] @@ none
      [] p.rx_state = "END" ->
           IF byte = CMD_PACKET_END
           THEN LET q == [Store(p, byte) EXCEPT !.rx_state = "WAIT_BEGIN"]
                    data_len == U8(q.rx_index - 5 + 256)
                IN  \* target_device_addr_ is 255: every address matches
                    [p |-> q, ret |-> TRUE, fwd |-> TRUE,
                     body |-> [i \in 1..data_len |->
                                 IF 2 + i < RxBufferSize THEN q.rx_buffer[2 + i]
                                 ELSE Indeterminate]]
           ELSE [p |-> [p EXCEPT !.rx_state = "WAIT_BEGIN"]] @@ none

\* reset() in progress: todo, the writes of lines 262-266 it has still to
\* make ("buf" is the memset of line 266); settled, the cells of rx_buffer_
\* the memset has cleared ahead of the others.
NoReset == [todo |-> {}, settled |-> {}]

\* reset() has been called and has written nothing yet
ResetCalled ==
    [todo |-> {"st", "idx", "len", "sum", "buf"}, settled |-> {}]

\* One write of reset() on parser p: of a member (f its name), of the whole
\* of rx_buffer_ but the cells settled ("buf"), or of the one cell c
\* ("cell").
ResetStep(p, m, f, c) ==
    [p |-> CASE f = "st" -> [p EXCEPT !.rx_state = "WAIT_BEGIN"]
             [] f = "idx" -> [p EXCEPT !.rx_index = 0]
             [] f = "len" -> [p EXCEPT !.rx_cmd_len = 0]
             [] f = "sum" -> [p EXCEPT !.rx_checksum = 0]
             [] f = "buf" ->
                  [p EXCEPT !.rx_buffer =
                      [i \in 0..(RxBufferSize - 1) |->
                          IF i \in m.settled THEN p.rx_buffer[i] ELSE 0]]
             [] f = "cell" ->
                  [p EXCEPT !.rx_buffer = [p.rx_buffer EXCEPT ![c] = 0]],
     m |-> IF f = "cell" THEN [m EXCEPT !.settled = m.settled \cup {c}]
           ELSE [todo |-> m.todo \ {f},
                 settled |-> IF f = "buf" THEN {} ELSE m.settled]]

\* What reset() can write next.  It writes the members in the order of the
\* source.  Nothing orders its writes against the accesses of a processByte
\* that runs in another thread at the same time, so a member that call is
\* about to access (t.members), or the cell (t.cell), may be written ahead
\* of its turn.
ResetMoves(m, t) ==
    (IF "st" \in m.todo THEN {"st"}
     ELSE IF "idx" \in m.todo THEN {"idx"}
     ELSE IF "len" \in m.todo THEN {"len"}
     ELSE IF "sum" \in m.todo THEN {"sum"}
     ELSE m.todo)
    \cup (t.members \cap m.todo)
    \cup (IF "buf" \in m.todo /\ t.cell \in 0..(RxBufferSize - 1)
             /\ t.cell \notin m.settled
          THEN {"cell"} ELSE {})

\* The place of a call of processByte: at, the next access to a member of the
\* parser ("off": not yet entered), named by its line; case, the rx_state_
\* the switch of line 28 has read; idx and sum, the copies of rx_index_ and
\* rx_checksum_ the call holds; left, what remains of
\* rx_buffer_[rx_index_++] = byte; dlen and cmd, the arguments of unpackData;
\* ret and cb, at the return ("ret"), the value returned and whether the data
\* callback is called; ep, the connection epochs of the frame.
PbIdle ==
    [at |-> "off", case |-> "none", idx |-> 0, sum |-> 0, left |-> "none",
     dlen |-> 0, cmd |-> 0, ret |-> FALSE, cb |-> FALSE, ep |-> "none"]

\* The members the next access of the call at q may touch, and the cell of
\* rx_buffer_ (-1: none).
Touches(q) ==
    [members |->
        CASE q.at \in {"off", "s26", "s33", "l68", "s68", "l69"} -> {"sum"}
          [] q.at \in {"l28", "s81", "sst", "fail"} -> {"st"}
          [] q.at \in {"s31", "ldi", "l61", "l86"} -> {"idx"}
          [] q.at \in {"s54", "l61n"} -> {"len"}
          [] q.at = "sti" /\ q.left \in {"both", "idx"} -> {"idx"}
          [] OTHER -> {},
     cell |-> IF q.at = "sti" /\ q.left \in {"both", "cell"} THEN q.idx
              ELSE IF q.at = "l110" THEN 3
              ELSE -1]

\* One access of processByte(b) to the parser p, the call being at q: the
\* set of the results [q, p].  A member is read and written in the order of
\* the source.  Where the source reads a member the call has read or
\* written before, the call reads the member again or uses the copy it holds
\* (a register); the two writes of rx_buffer_[rx_index_++] = byte come in
\* either order.  Line 85 and the output statements read members without
\* using them for anything the parser keeps.
PbSteps(q, p, b) ==
    LET To(q2, p2) == {[q |-> q2, p |-> p2]}
        Return(v, cb, p2) ==
            To([PbIdle EXCEPT !.at = "ret", !.ret = v, !.cb = cb], p2)
        Again(member, copy) == {member, copy}
        bump == U8(q.idx + 1)
        \* where the case goes on after rx_buffer_[rx_index_++] = byte
        after ==
            CASE q.case = "WAIT_BEGIN" -> "s33"
              [] q.case = "ADDRESS" -> IF IsBroadcast(b) THEN "fail" ELSE "sst"
              [] q.case = "LENGTH" -> IF InvalidLength(b) THEN "fail" ELSE "s54"
              [] q.case = "DATA" -> "l61"
              [] q.case = "CHECKSUM" -> "sst"
              [] q.case = "END" -> "l86"
        held == IF q.case \in {"DATA", "END"} THEN bump ELSE 0
        \* the state the case leads to (lines 34, 44, 55, 63, 72)
        target ==
            CASE q.case = "WAIT_BEGIN" -> "ADDRESS"
              [] q.case = "ADDRESS" -> "LENGTH"
              [] q.case = "LENGTH" -> "DATA"
              [] q.case = "DATA" -> "CHECKSUM"
              [] OTHER -> "END"
        moved(l) == IF l = "both" THEN q
                    ELSE [q EXCEPT !.at = after, !.left = "none", !.idx = held]
    IN
    CASE q.at = "off" ->      \* line 26, the read
           To([q EXCEPT !.at = "s26", !.sum = p.rx_checksum], p)
      [] q.at = "s26" ->      \* line 26, the write
           LET x == U8(q.sum + b) IN
           To([q EXCEPT !.at = "l28", !.sum = x],
              [p EXCEPT !.rx_checksum = x])
      [] q.at = "l28" ->      \* line 28
           LET st == p.rx_state IN
           IF st = "WAIT_BEGIN"
           THEN IF b = CMD_PACKET_BEGIN
                THEN To([q EXCEPT !.at = "s31", !.case = st, !.sum = 0], p)
                ELSE Return(FALSE, FALSE, p)
           ELSE IF st = "CHECKSUM"
           THEN To([q EXCEPT !.at = "l68", !.case = st], p)
           ELSE IF st = "END"
           THEN To([q EXCEPT !.at = "s81", !.case = st, !.sum = 0], p)
           ELSE To([q EXCEPT !.at = "ldi", !.case = st, !.sum = 0], p)
      [] q.at = "s31" ->      \* line 31
           To([q EXCEPT !.at = "ldi"], [p EXCEPT !.rx_index = 0])
      [] q.at = "ldi" ->      \* lines 32, 39, 49, 60, 71, 83: rx_index_ is read
           To([q EXCEPT !.at = "sti", !.idx = p.rx_index, !.left = "both"], p)
      [] q.at = "sti" ->      \* and rx_index_ and the cell are written
           (IF q.left \in {"both", "idx"}
            THEN To(IF q.left = "both" THEN [q EXCEPT !.left = "cell"]
                    ELSE moved(q.left),
                    [p EXCEPT !.rx_index = bump])
            ELSE {})
           \cup
           (IF q.left \in {"both", "cell"}
            THEN To(IF q.left = "both" THEN [q EXCEPT !.left = "idx"]
                    ELSE moved(q.left),
                    [p EXCEPT !.rx_buffer = [p.rx_buffer EXCEPT ![q.idx] = b]])
            ELSE {})
      [] q.at = "s33" ->      \* line 33
           To([q EXCEPT !.at = "sst"], [p EXCEPT !.rx_checksum = 0])
      [] q.at = "s54" ->      \* line 54
           To([q EXCEPT !.at = "sst"], [p EXCEPT !.rx_cmd_len = b])
      [] q.at = "l61" ->      \* line 61, rx_index_
           UNION {To([q EXCEPT !.at = "l61n", !.idx = i], p) :
                    i \in Again(p.rx_index, q.idx)}
      [] q.at = "l61n" ->     \* line 61, rx_cmd_len_ and the comparison
           IF BodyComplete([rx_index |-> q.idx, rx_cmd_len |-> p.rx_cmd_len])
           THEN To([q EXCEPT !.at = "sst", !.idx = 0], p)
           ELSE Return(FALSE, FALSE, p)
      [] q.at = "l68" ->      \* line 68, the read
           UNION {To([q EXCEPT !.at = "s68", !.sum = x], p) :
                    x \in Again(p.rx_checksum, q.sum)}
      [] q.at = "s68" ->      \* line 68, the write
           LET x == U8(q.sum - b + 256) IN
           To([q EXCEPT !.at = "l69", !.sum = x],
              [p EXCEPT !.rx_checksum = x])
      [] q.at = "l69" ->      \* line 69
           UNION {To([q EXCEPT
                        !.at = IF ChecksumMatches([rx_checksum |-> x], b)
                               THEN "ldi" ELSE "fail",
                        !.sum = 0], p) :
                    x \in Again(p.rx_checksum, q.sum)}
      [] q.at = "s81" ->      \* lines 81-82
           IF b = CMD_PACKET_END
           THEN To([q EXCEPT !.at = "ldi"],
                   [p EXCEPT !.rx_state = "WAIT_BEGIN"])
           ELSE Return(FALSE, FALSE, [p EXCEPT !.rx_state = "WAIT_BEGIN"])
      [] q.at = "l86" ->      \* line 86: data_len = rx_index_ - 5
           UNION {LET n == U8(i - 5 + 256) IN
                  To([q EXCEPT !.at = IF n = 0 THEN "call" ELSE "l110",
                               !.dlen = n, !.idx = 0], p) :
                    i \in Again(p.rx_index, q.idx)}
      [] q.at = "l110" ->     \* unpackData, line 110: buf[0] is rx_buffer_[3]
           To([q EXCEPT !.at = "call", !.cmd = p.rx_buffer[3]], p)
      [] q.at = "call" ->     \* lines 108-112, 122 and 222-224; line 92
           Return(TRUE, CallbackFires(q.cmd, q.dlen), p)
      [] q.at = "sst" ->      \* lines 34, 44, 55, 63, 72
           Return(FALSE, FALSE, [p EXCEPT !.rx_state = target])
      [] q.at = "fail" ->     \* lines 42, 52, 76
           Return(FALSE, FALSE, [p EXCEPT !.rx_state = "WAIT_BEGIN"])

(***************************************************************************)
(* IMUParser::unpackData and parseSensorData.  A field of IMUData holds    *)
(* the integer read, before it is multiplied by its scale; buf is indexed  *)
(* from 0.                                                                 *)
(***************************************************************************)
\* (S16)(((S16)buf[L+1] << 8) | buf[L])
S16At(buf, L) ==
    LET v == buf[L + 1] * 256 + buf[L] IN
    IF v >= 32768 THEN v - 65536 ELSE v

\* lines 183-187: three bytes, sign-extended from bit 23
S24At(buf, L) ==
    LET v == buf[L + 2] * 65536 + buf[L + 1] * 256 + buf[L] IN
    IF v >= 8388608 THEN v - 16777216 ELSE v

\* every group 8 bytes wide
GroupWidthAllEight(g) == 8

\* the bytes the g-th group takes: acceleration, acceleration with gravity,
\* angular rate, magnetometer (6 each), temperature with pressure and
\* height (8), quaternion (8), Euler angles (6)
GroupWidth(g) == IF g \in {5, 6} THEN 8 ELSE 6

\* g-th group: tag bit 2^(g-1)
Selected(tag, g) == (tag \div (2 ^ (g - 1))) % 2 = 1

\* the fields of the g-th group read at L
DecodeGroup(g, buf, L) ==
    IF g = 5 THEN <<S16At(buf, L), S24At(buf, L + 2), S24At(buf, L + 5)>>
    ELSE IF g = 6 THEN <<S16At(buf, L), S16At(buf, L + 2), S16At(buf, L + 4),
                         S16At(buf, L + 6)>>
    ELSE <<S16At(buf, L), S16At(buf, L + 2), S16At(buf, L + 4)>>

\* IMUData's initial values
DefaultGroup(g) == IF g = 6 THEN <<0, 0, 0, 0>> ELSE <<0, 0, 0>>

\* a bound that lets a group end one byte after the body
FitsOneShort(L, w, dLen) == L + w <= dLen + 1

\* line 137 and its like: L + 6 <= dLen
Fits(L, w, dLen) == L + w <= dLen

\* lines 137-219: the seven if-blocks, from the g-th on
RECURSIVE ParseGroups(_, _, _, _, _, _)
ParseGroups(buf, dLen, tag, g, L, data) ==
    IF g > 7 THEN [data |-> data, L |-> L]
    ELSE IF Selected(tag, g) /\ Fits(L, GroupWidth(g), dLen)
    THEN ParseGroups(buf, dLen, tag, g + 1, U8(L + GroupWidth(g)),
                     [data EXCEPT ![g] = DecodeGroup(g, buf, L)])
    ELSE ParseGroups(buf, dLen, tag, g + 1, L, data)

\* unpackData(buf, dLen), with a data callback set: whether the callback is
\* called, and the sample it gets
UnpackData(buf, dLen) ==
    IF ~CallbackFires(buf[0], dLen)
    THEN [called |-> TRUE, emitted |-> FALSE, tag |-> 0, timestamp |-> 0,
          L |-> 0, data |-> [g \in 1..7 |-> DefaultGroup(g)]]
    ELSE LET tag == buf[2] * 256 + buf[1]
             r == ParseGroups(buf, dLen, tag, 1, 7,
                              [g \in 1..7 |-> DefaultGroup(g)])
         IN  [called |-> TRUE, emitted |-> TRUE, tag |-> tag,
              timestamp |-> buf[6] * 16777216 + buf[5] * 65536
                            + buf[4] * 256 + buf[3],
              L |-> r.L, data |-> r.data]

(***************************************************************************)
(* IMUParser::packAndSend.  A pointer is null or points at an array.       *)
(***************************************************************************)
NullPtr == [null |-> TRUE, bytes |-> <<>>]
Ptr(bytes) == [null |-> FALSE, bytes |-> bytes]

\* a preamble of 50 zero bytes
PreambleAllZero == [i \in 1..50 |-> 0]

\* lines 237-241: memset(buf, 0, 46), then 00 FF 00 FF
Preamble == [i \in 1..46 |-> 0] \o <<0, 255, 0, 255>>

\* line 229, the test of dLen
RejectsLength(dLen) == dLen = 0 \/ dLen > CMD_PACKET_MAX_DAT_SIZE_TX

\* lines 250-253: for (i = first; i < end; i++) checksum += buf[i], with buf
\* indexed from 0 as in the source
RECURSIVE ChecksumLoop(_, _, _, _)
ChecksumLoop(buf, i, end, checksum) ==
    IF i >= end THEN checksum
    ELSE ChecksumLoop(buf, i + 1, end, U8(checksum + buf[i + 1]))

\* a checksum that takes in the start marker as well
PackChecksumWithMarker(buf, dLen) == ChecksumLoop(buf, 50, 53 + dLen, 0)

\* lines 250-253
PackChecksum(buf, dLen) == ChecksumLoop(buf, 51, 53 + dLen, 0)

\* packAndSend(pDat, dLen, deviceAddr, sendFunc): the value returned, the
\* bytes handed to sendFunc and the number of times it was called; sendRet
\* is what sendFunc returns.
PackAndSend(pDat, dLen, deviceAddr, sendRet) ==
    IF RejectsLength(dLen) \/ pDat.null
    THEN [ret |-> -1, sent |-> <<>>, calls |-> 0]
    ELSE LET head == Preamble \o <<CMD_PACKET_BEGIN, deviceAddr, dLen>>
                     \o SubSeq(pDat.bytes, 1, dLen)
             buf == head \o <<PackChecksum(head, dLen), CMD_PACKET_END>>
         IN  [ret |-> sendRet, sent |-> SubSeq(buf, 1, 55 + dLen),
              calls |-> 1]

(***************************************************************************)
(* IMUReader: the connection manager and its threads.                      *)
(***************************************************************************)
VARIABLES
    running_,           \* std::atomic<bool> running_
    connected_,         \* std::atomic<bool> connected_
    serial_,            \* the handle: "null", "open" (isOpen()) or "closed"
    serial_mutex_,      \* the thread holding the mutex, or "none"
    reconnect_count_,
    max_reconnect_,
    parser,             \* *parser_
    pc,                 \* where each thread is
    cmd,                \* body[0] of the command a thread is sending
    byte, bytes_read,   \* locals of readThread
    pb,                 \* where readThread's call of processByte is
    rst,                \* what reconnect()'s call of reset() has still to do
    need_reconnect, device_exists, last_device_state,  \* locals of hotplugThread
    wait_count,         \* local of reconnect()
    devicePresent,      \* does stat(port_) succeed
    devPos,             \* the next byte of the device's stream
    stable,             \* the environment has promised to stay good
    faults,             \* removals of the device file and refusals of open()
                        \* since open() last succeeded
    rcOpened, rcResult, \* this reconnect(): did openSerial() succeed; its result
    seqLog, seqResult,  \* the commands of a thread's configuration sequence
    failedSince,        \* attempts of reconnect() that failed since a success
    hpOpens,            \* openSerial() calls of reconnect() since one succeeded
                        \* (both since max_reconnect_ was last changed)
    rxEp, byteEp,       \* connection epochs of the bytes held
    ev,                 \* what the last step did (history of one step)
    call,               \* the call under study: its arguments
    wire,               \* the bytes handed to the transmit function
    txRet,              \* what the call returned
    fed,                \* the bytes given to processByte since the last reset
    rx,                 \* what processByte returned and forwarded
    sensor              \* parseSensorData: its cursor L and the IMUData

vars == <<running_, connected_, serial_, serial_mutex_, reconnect_count_,
          max_reconnect_, parser, pc, cmd, byte, bytes_read, pb, rst,
          need_reconnect,
          device_exists, last_device_state, wait_count, devicePresent, devPos,
          stable, faults, rcOpened, rcResult, seqLog, seqResult, failedSince, hpOpens,
          rxEp, byteEp, ev, call, wire, txRet, fed, rx, sensor>>

\* The variables of the specifications of single functions (further down);
\* the manager leaves them alone.
fnVars == <<call, wire, txRet, fed, rx, sensor>>

Threads == {"main", "read", "hotplug"}
Callers == {"main", "hotplug"}

\* The three commands of the configuration sequence: 0x12, 0x03, 0x19.
CMD_CONFIG == 18
CMD_WAKEUP == 3
CMD_AUTO_REPORT == 25

\* The frame the device streams: 0x49, address 100, length 1, the body 0x80,
\* the checksum (100 + 1 + 128) and 0x4D.
DeviceFrame == <<73, 100, 1, 128, 229, 77>>

\* A sensor report as the device streams it: 0x49, address 100, length 7,
\* the body 0x11 with an empty tag and a zero timestamp, the checksum
\* (100 + 7 + 17) and 0x4D.
SensorFrame == <<73, 100, 7, 17, 0, 0, 0, 0, 0, 0, 124, 77>>

\* The device repeats the frame; devPos counts the bytes it has delivered.
\* When bytes are given on the wire the device sends these, the first of
\* them so that the last read allowed delivers the last of them.
DeviceByte(pos) ==
    IF wire = <<>> THEN DeviceFrame[((pos - 1) % Len(DeviceFrame)) + 1]
    ELSE wire[((pos + Len(wire) - MaxBytes - 1) % Len(wire)) + 1]

Min(a, b) == IF a < b THEN a ELSE b

rdLocals == <<byte, bytes_read, pb>>
hpLocals == <<need_reconnect, device_exists, last_device_state, wait_count,
             rst>>
envVars == <<devicePresent, devPos, stable, faults>>
rcVars == <<rcOpened, rcResult>>
seqVars == <<seqLog, seqResult>>
cntVars == <<failedSince, hpOpens>>
epVars == <<rxEp, byteEp>>
mgrVars == <<running_, connected_, serial_, reconnect_count_, max_reconnect_>>

Goto(t, to) == pc' = [pc EXCEPT ![t] = to]

\* ev records what the step just taken did: rel, the transport operation that
\* failed in the critical section the step ended, and by, whose it was; read,
\* the acquisition thread called read(); feed and accept, what a call of
\* processByte() was given and whether it accepted a frame.
NoEv == [rel |-> "none", by |-> "none", read |-> FALSE, feed |-> "none",
         accept |-> "none"]

\* IMUReader::IMUReader() followed by initialize(): max_reconnect_ is read
\* from the configuration; the parser is constructed.
ManagerInit(pos) ==
    /\ running_ = FALSE /\ connected_ = FALSE /\ serial_ = "null"
    /\ serial_mutex_ = "none" /\ reconnect_count_ = 0
    /\ max_reconnect_ \in {0, MaxReconnectCfg}
    /\ parser = ParserInit
    /\ pc = [t \in Threads |-> IF t = "main" THEN "idle" ELSE "off"]
    /\ cmd = [t \in Callers |-> 0]
    /\ byte = 0 /\ bytes_read = 0 /\ pb = PbIdle /\ rst = NoReset
    /\ need_reconnect = FALSE /\ device_exists = FALSE
    /\ last_device_state = FALSE /\ wait_count = 0
    /\ devicePresent \in BOOLEAN /\ devPos = pos /\ stable = FALSE
    /\ faults = 0
    /\ rcOpened = FALSE /\ rcResult = FALSE
    /\ seqLog = [t \in Callers |-> <<>>]
    /\ seqResult = [t \in Callers |-> "none"]
    /\ failedSince = 0 /\ hpOpens = 0
    /\ rxEp = "none" /\ byteEp = "cur"
    /\ ev = NoEv

InitAt(pos) ==
    /\ ManagerInit(pos)
    /\ call = "none" /\ wire = <<>> /\ txRet = "none"
    /\ fed = <<>> /\ rx = "none" /\ sensor = "none"

Init == InitAt(1)

(***************************************************************************)
(* std::lock_guard<std::mutex> lock(serial_mutex_): the constructor blocks *)
(* until the mutex is free and takes it.                                   *)
(***************************************************************************)
\* a critical section entered without waiting for the mutex
MutexFreeUnchecked(t) == TRUE

MutexFree(t) == serial_mutex_ = "none"

Acquire(t, from, to) ==
    /\ pc[t] = from
    /\ MutexFree(t)
    /\ serial_mutex_' = t
    /\ Goto(t, to)
    /\ ev' = NoEv
    /\ UNCHANGED <<mgrVars, parser, cmd, rdLocals, hpLocals, envVars, rcVars,
                   seqVars, cntVars, epVars>>
    /\ UNCHANGED fnVars

\* The ways a critical section ends with a failed transport operation.
Failures == {"open_fail", "read_exc", "write_fail"}

\* a critical section that ends without unlocking the mutex
ReleaseForgotten(t, kind) ==
    /\ serial_mutex_' = serial_mutex_
    /\ ev' = NoEv

\* The lock_guard's destructor; kind tells how the critical section ended,
\* which ev records when a transport operation failed in it.
Release(t, kind) ==
    /\ serial_mutex_' = "none"
    /\ ev' = IF kind \in Failures THEN [NoEv EXCEPT !.rel = kind, !.by = t]
             ELSE NoEv

\* A step of thread t that touches nothing but its own position.
Step(t, to) ==
    /\ Goto(t, to)
    /\ ev' = NoEv
    /\ UNCHANGED <<mgrVars, serial_mutex_, parser, cmd, rdLocals, hpLocals,
                   envVars, rcVars, seqVars, cntVars, epVars>>
    /\ UNCHANGED fnVars

(***************************************************************************)
(* Connection epochs.  A byte is "cur" when it was read since the latest   *)
(* successful open and "old" when it was read before it ("old_reset" when  *)
(* the parser was reset since that open); rxEp is the class of the bytes   *)
(* of the partial frame the parser holds.                                  *)
(***************************************************************************)
Age(e) == IF e = "cur" THEN "old" ELSE e

Join(a, b) == IF a = "none" THEN b ELSE IF a = b THEN a ELSE "mixed"

(***************************************************************************)
(* IMUReader::openSerial(), called by start() (main) and by reconnect()    *)
(* (hotplug).  AfterOpen is the caller's continuation.                     *)
(***************************************************************************)
\* The history counters failedSince and hpOpens count only under a limit
\* (max_reconnect_ > 0) and up to one more than the limit; they are kept in
\* Spec (the device of DeviceFrame, nothing on the wire), where they are
\* read.
Counted(n) ==
    IF max_reconnect_ = 0 \/ wire # <<>> THEN 0
    ELSE Min(n + 1, max_reconnect_ + 1)

\* reconnect() returns: the retry loop of hotplugThread sees the result.
RcReturn(result) ==
    /\ Goto("hotplug", "rc_ret")
    /\ rcResult' = result
    /\ failedSince' = IF result THEN 0 ELSE Counted(failedSince)

\* reconnect(), line 322: reconnect_count_ = 0 once openSerial() has returned
\* true
CountAfterOpen(c) == 0

AfterOpen(t, ok) ==
    IF t = "main"
    THEN \* start(): lines 103-109
         /\ Goto(t, IF ok THEN "cmd_lock" ELSE "st_ret")
         /\ cmd' = [cmd EXCEPT ![t] = IF ok THEN CMD_CONFIG ELSE @]
         /\ seqResult' = [seqResult EXCEPT ![t] = IF ok THEN "run" ELSE @]
         /\ UNCHANGED <<reconnect_count_, rcVars, cntVars, seqLog>>
    ELSE \* reconnect(): lines 321 and 337-339
         IF ok
         THEN /\ Goto(t, "rc_zero")
              /\ rcOpened' = TRUE /\ hpOpens' = 0
              /\ UNCHANGED <<reconnect_count_, rcResult, failedSince, cmd,
                             seqVars>>
         ELSE /\ RcReturn(FALSE)
              /\ UNCHANGED <<reconnect_count_, rcOpened, hpOpens, cmd, seqVars>>

openSerial_lock(t) ==
    /\ Acquire(t, "open_lock", "open_cs")

\* lines 232-255: stat(); close and discard a handle left over; sleep 100 ms
openSerial_stat(t) ==
    /\ pc[t] = "open_cs"
    /\ IF ~devicePresent
       THEN /\ connected_' = FALSE
            /\ Release(t, "open_fail")
            /\ AfterOpen(t, FALSE)
            /\ UNCHANGED serial_
       ELSE /\ serial_' = "null"
            /\ Goto(t, "open_sleep")
            /\ ev' = NoEv
            /\ UNCHANGED <<connected_, serial_mutex_, reconnect_count_, cmd,
                           rcVars, seqVars, cntVars>>
    /\ UNCHANGED <<running_, max_reconnect_, parser, rdLocals, hpLocals,
                   envVars, epVars>>
    /\ UNCHANGED fnVars

\* lines 257-278: the constructor opens the port, or throws, or isOpen() is
\* false.  It fails when the device file has gone; a refusal with the file
\* there is a fault of the outage, which has at most MaxFaults of them.
openSerial_construct(t) ==
    /\ pc[t] = "open_sleep"
    /\ \E ok \in BOOLEAN :
         /\ ok => devicePresent
         /\ (devicePresent /\ (stable \/ faults >= MaxFaults)) => ok
         /\ faults' = IF ok THEN 0
                       ELSE IF devicePresent THEN faults + 1 ELSE faults
         /\ IF ok
            THEN /\ serial_' = "open" /\ connected_' = TRUE
                 /\ Release(t, "open_ok")
                 /\ rxEp' = Age(rxEp)
                 /\ byteEp' = IF pc["read"] = "rd_feed" /\ pb.at = "off"
                              THEN "old" ELSE "cur"
            ELSE /\ serial_' = "null" /\ connected_' = FALSE
                 /\ Release(t, "open_fail")
                 /\ UNCHANGED epVars
         /\ AfterOpen(t, ok)
    /\ UNCHANGED <<running_, max_reconnect_, parser, rdLocals, hpLocals,
                   devicePresent, devPos, stable>>
    /\ UNCHANGED fnVars

(***************************************************************************)
(* IMUReader::closeSerial(), called by stop() (main) and twice by          *)
(* reconnect() (hotplug): at its beginning and when the replay failed.     *)
(***************************************************************************)
\* closeSerial() without its last line
ConnectedAfterCloseKept == connected_

\* line 288
ConnectedAfterClose == FALSE

closeSerial_body(t, from) ==
    /\ pc[t] = from
    /\ serial_' = "null"
    /\ connected_' = ConnectedAfterClose
    /\ Release(t, "close")

(***************************************************************************)
(* IMUReader::sendCommand(): under the mutex, refuse when not connected,   *)
(* else packAndSend() writes the frame; a short write or an exception of   *)
(* write() is a failure.                                                   *)
(***************************************************************************)
\* start() lines 109-124, reconnect() line 329: configureIMU(), then
\* wakeupSensor(), then enableAutoReport()
NextCmd(c) == IF c = CMD_CONFIG THEN CMD_WAKEUP ELSE CMD_AUTO_REPORT

\* a sequence that ignores what its commands return
SequenceGoesOnRegardless(ok) == TRUE

\* ... each only if the one before returned true
SequenceGoesOn(ok) == ok

\* a failed replay that returns false without closeSerial()
AfterReplayFailedNoClose == "rc_ret"

\* reconnect() lines 332-336: a failed replay goes on to closeSerial()
AfterReplayFailed == "fclose_lock"

\* sendCommand() line 165
Refused == ~connected_ \/ serial_ = "null"

\* sendCommand() returns what packAndSend() made of the write
SendResult(written, wr) == written /\ wr

AfterCmd(t, ok) ==
    LET last == cmd[t] = CMD_AUTO_REPORT
        goOn == SequenceGoesOn(ok)
    IN
    /\ seqResult' = [seqResult EXCEPT ![t] =
                       IF ~goOn THEN "fail"
                       ELSE IF last THEN (IF ok THEN "ok" ELSE "fail") ELSE @]
    /\ cmd' = [cmd EXCEPT ![t] = IF goOn /\ ~last THEN NextCmd(@) ELSE @]
    /\ IF t = "main"
       THEN /\ Goto(t, IF ~goOn THEN "st_ret"
                       ELSE IF last THEN (IF ok THEN "st_run" ELSE "st_ret")
                       ELSE "cmd_lock")
            /\ UNCHANGED <<rcResult, failedSince>>
       ELSE IF goOn /\ last /\ ok
            THEN RcReturn(TRUE)
            ELSE /\ Goto(t, IF goOn /\ ~last THEN "cmd_lock"
                            ELSE AfterReplayFailed)
                 /\ UNCHANGED <<rcResult, failedSince>>

sendCommand_lock(t) ==
    /\ Acquire(t, "cmd_lock", "cmd_cs")

\* a command of the configuration sequence of start() or reconnect()
sendCommand_body(t) ==
    /\ pc[t] = "cmd_cs"
    /\ \E wr \in BOOLEAN :
         /\ wr => serial_ = "open"
         /\ (stable /\ serial_ = "open") => wr
         /\ LET written == ~Refused
                ok == SendResult(written, wr)
            IN /\ Release(t, IF ~written THEN "cmd_refused"
                             ELSE IF wr THEN "write_ok" ELSE "write_fail")
               /\ seqLog' = [seqLog EXCEPT ![t] =
                    Append(@, [cmd |-> cmd[t], written |-> written, ok |-> ok])]
               /\ AfterCmd(t, ok)
    /\ UNCHANGED <<mgrVars, parser, rdLocals, hpLocals, envVars, rcOpened,
                   hpOpens, epVars>>
    /\ UNCHANGED fnVars

\* the application calls sendCommand() itself
sendCommand_user ==
    /\ pc["main"] = "idle"
    /\ Step("main", "ucmd_lock")

sendCommand_user_lock ==
    /\ Acquire("main", "ucmd_lock", "ucmd_cs")

sendCommand_user_body ==
    /\ pc["main"] = "ucmd_cs"
    /\ \E wr \in BOOLEAN :
         /\ wr => serial_ = "open"
         /\ (stable /\ serial_ = "open") => wr
         /\ Release("main", IF Refused THEN "cmd_refused"
                            ELSE IF wr THEN "write_ok" ELSE "write_fail")
    /\ Goto("main", "idle")
    /\ UNCHANGED <<mgrVars, parser, cmd, rdLocals, hpLocals, envVars, rcVars,
                   seqVars, cntVars, epVars>>
    /\ UNCHANGED fnVars

(***************************************************************************)
(* IMUReader::initialize(), start() and stop(), called by the application  *)
(* (main).                                                                 *)
(***************************************************************************)
\* initialize(), lines 62-95: the configuration is loaded again; line 87
\* assigns max_reconnect_.  Nothing in it looks at running_, so the
\* application can call it while the threads run: max_reconnect_ is a plain
\* int that hotplugThread reads twice at line 292 with no lock, and each of
\* the reads sees the value from before the assignment or the one after it
\* (reconnect_guard, reconnect_limit).  reconnect_count_ stays as it is.
\* The history counters start again under a changed limit.
initialize_call ==
    /\ pc["main"] = "idle"
    /\ \E n \in {0, MaxReconnectCfg} :
         /\ max_reconnect_' = n
         /\ failedSince' = IF n = max_reconnect_ THEN failedSince ELSE 0
         /\ hpOpens' = IF n = max_reconnect_ THEN hpOpens ELSE 0
    /\ ev' = NoEv
    /\ UNCHANGED <<running_, connected_, serial_, reconnect_count_,
                   serial_mutex_, parser, pc, cmd, rdLocals, hpLocals, envVars,
                   rcVars, seqVars, epVars>>
    /\ UNCHANGED fnVars

\* start(), lines 98-103: not running, so openSerial() is called
start_call ==
    /\ pc["main"] = "idle" /\ ~running_
    /\ Step("main", "open_lock")

\* start() returns false: lines 105, 111, 117, 123
start_fails ==
    /\ pc["main"] = "st_ret"
    /\ Goto("main", "idle")
    /\ cmd' = [cmd EXCEPT !["main"] = 0]
    /\ seqLog' = [seqLog EXCEPT !["main"] = <<>>]
    /\ seqResult' = [seqResult EXCEPT !["main"] = "none"]
    /\ ev' = NoEv
    /\ UNCHANGED <<mgrVars, serial_mutex_, parser, rdLocals, hpLocals, envVars,
                   rcVars, cntVars, epVars>>
    /\ UNCHANGED fnVars

\* start(), lines 128-137: the sequence succeeded; both threads are started
start_run ==
    /\ pc["main"] = "st_run"
    /\ running_' = TRUE
    /\ reconnect_count_' = 0
    /\ pc' = [pc EXCEPT !["main"] = "idle", !["read"] = "rd_loop",
                        !["hotplug"] = "hp_loop"]
    /\ bytes_read' = 0
    /\ last_device_state' = FALSE
    /\ failedSince' = 0 /\ hpOpens' = 0
    /\ cmd' = [cmd EXCEPT !["main"] = 0]
    /\ seqLog' = [seqLog EXCEPT !["main"] = <<>>]
    /\ seqResult' = [seqResult EXCEPT !["main"] = "none"]
    /\ ev' = NoEv
    /\ UNCHANGED <<connected_, serial_, max_reconnect_, serial_mutex_, parser,
                   byte, pb, need_reconnect, device_exists, wait_count, rst,
                   envVars, rcVars, epVars>>
    /\ UNCHANGED fnVars

\* stop(), lines 141-145
stop_call ==
    /\ pc["main"] = "idle" /\ running_
    /\ running_' = FALSE
    /\ Goto("main", "join_read")
    /\ ev' = NoEv
    /\ UNCHANGED <<connected_, serial_, reconnect_count_, max_reconnect_,
                   serial_mutex_, parser, cmd, rdLocals, hpLocals, envVars,
                   rcVars, seqVars, cntVars, epVars>>
    /\ UNCHANGED fnVars

\* stop(), lines 148-153: join() returns when the thread's function has returned
stop_join(t, from, to) ==
    /\ pc["main"] = from /\ pc[t] = "done"
    /\ pc' = [pc EXCEPT !["main"] = to, ![t] = "off"]
    /\ ev' = NoEv
    /\ IF t = "hotplug" THEN failedSince' = 0 /\ hpOpens' = 0
       ELSE UNCHANGED cntVars
    /\ UNCHANGED <<mgrVars, serial_mutex_, parser, cmd, rdLocals, hpLocals,
                   envVars, rcVars, seqVars, epVars>>
    /\ UNCHANGED fnVars

\* stop(), line 155
stop_close_lock ==
    /\ Acquire("main", "close_lock", "close_cs")

stop_close ==
    /\ closeSerial_body("main", "close_cs")
    /\ Goto("main", "idle")
    /\ UNCHANGED <<running_, reconnect_count_, max_reconnect_, parser, cmd,
                   rdLocals, hpLocals, envVars, rcVars, seqVars, cntVars, epVars>>
    /\ UNCHANGED fnVars

(***************************************************************************)
(* IMUReader::readThread(), the acquisition thread.                        *)
(***************************************************************************)
\* line 363: while (running_)
readThread_loop ==
    /\ pc["read"] = "rd_loop"
    /\ Step("read", IF running_ THEN "rd_lock" ELSE "done")

readThread_lock ==
    /\ Acquire("read", "rd_lock", "rd_cs")

\* a test of the handle alone, whatever connected_ says
UsableHandleOnly == serial_ # "null"

\* line 367
Usable == connected_ /\ serial_ # "null" /\ serial_ = "open"

\* lines 367-369: not connected; the thread sleeps 100 ms inside the scope of
\* the lock_guard
readThread_notConnected ==
    /\ pc["read"] = "rd_cs"
    /\ ~Usable
    /\ Step("read", "rd_sleep_nc")

\* line 373: read() returns one byte or, on its timeout, none; the scope of
\* the lock_guard ends at line 388.  A byte the device has to send arrives
\* within the timeout once the transport works for good.
readThread_read ==
    /\ pc["read"] = "rd_cs"
    /\ Usable
    /\ \/ /\ devicePresent /\ devPos <= MaxBytes
          /\ byte' = DeviceByte(devPos)
          /\ devPos' = devPos + 1
          /\ bytes_read' = 1
          /\ Goto("read", "rd_feed")
       \/ /\ ~(stable /\ devPos <= MaxBytes)
          /\ bytes_read' = 0
          /\ Goto("read", "rd_nodata")
          /\ UNCHANGED <<byte, devPos>>
    /\ serial_mutex_' = "none"
    /\ ev' = [NoEv EXCEPT !.read = TRUE]
    /\ byteEp' = "cur"
    /\ UNCHANGED <<mgrVars, parser, cmd, pb, hpLocals, devicePresent, stable,
                   faults, rcVars, seqVars, cntVars, rxEp>>
    /\ UNCHANGED fnVars

\* what the catch block of lines 374-387 leaves in connected_
ConnectedAfterReadError == FALSE

\* lines 374-386: read() throws; the handle is closed, connected_ cleared, and
\* the thread sleeps 100 ms inside the scope of the lock_guard
readThread_readThrows ==
    /\ pc["read"] = "rd_cs"
    /\ Usable
    /\ ~stable
    /\ serial_' = "closed"
    /\ connected_' = ConnectedAfterReadError
    /\ Goto("read", "rd_sleep_exc")
    /\ ev' = [NoEv EXCEPT !.read = TRUE]
    /\ UNCHANGED <<running_, reconnect_count_, max_reconnect_, serial_mutex_,
                   parser, cmd, rdLocals, hpLocals, envVars, rcVars, seqVars,
                   cntVars, epVars>>
    /\ UNCHANGED fnVars

\* `continue` leaves the scope: the mutex is released after the sleep
readThread_wake(from, kind) ==
    /\ pc["read"] = from
    /\ Release("read", kind)
    /\ Goto("read", "rd_loop")
    /\ UNCHANGED <<mgrVars, parser, cmd, rdLocals, hpLocals, envVars, rcVars,
                   seqVars, cntVars, epVars>>
    /\ UNCHANGED fnVars

\* lines 390-392: parser_->processByte(byte), outside the mutex.  A step is
\* one access of the call to a member of the parser (PbSteps); the health
\* thread takes its own steps in between, those of reset() among them.  The
\* first step tells ev what is fed, the last whether a frame was accepted.
readThread_feed ==
    /\ pc["read"] = "rd_feed"
    /\ \E o \in PbSteps(pb, parser, byte) :
         LET first == pb.at = "off"
             last == o.q.at = "ret"
             idle == parser.rx_state = "WAIT_BEGIN"
             byteClass == IF byteEp = "cur" THEN "cur" ELSE "old"
             frameEp == IF idle THEN byteClass ELSE Join(rxEp, byteClass)
         IN /\ parser' = o.p
            /\ pb' = IF last THEN PbIdle
                     ELSE IF first THEN [o.q EXCEPT !.ep = frameEp]
                     ELSE o.q
            /\ rxEp' = IF ~last THEN rxEp
                       ELSE IF o.p.rx_state = "WAIT_BEGIN" THEN "none"
                       ELSE pb.ep
            /\ ev' = [NoEv EXCEPT
                        !.accept = IF ~(last /\ o.q.ret) THEN "none"
                                   ELSE IF pb.ep = "mixed" THEN "mixed"
                                   ELSE "pure",
                        !.feed = IF ~first THEN "none"
                                 ELSE IF byteEp = "old_reset" THEN "stale_byte"
                                 ELSE IF byteEp = "cur" /\ ~idle
                                         /\ rxEp \in {"old", "mixed"}
                                      THEN "stale_state"
                                 ELSE "ok"]
            /\ Goto("read", IF ~last THEN "rd_feed"
                            ELSE IF o.q.cb THEN "rd_cb" ELSE "rd_loop")
    /\ byteEp' = "cur"
    /\ UNCHANGED <<mgrVars, serial_mutex_, cmd, byte, bytes_read, hpLocals,
                   envVars, rcVars, seqVars, cntVars>>
    /\ UNCHANGED fnVars

\* parseSensorData() lines 222-224: the data callback runs and returns; so
\* do unpackData and processByte, which touch the parser no more.
\* DeviceFrame carries no 0x11 body of 7 bytes or more, so this step is not
\* among the steps of Next; it is among those of NextLive.
readThread_callback ==
    /\ pc["read"] = "rd_cb"
    /\ Step("read", "rd_loop")

\* lines 401-403: nothing was read; sleep 1 ms
readThread_nodata ==
    /\ pc["read"] = "rd_nodata"
    /\ Step("read", "rd_loop")

(***************************************************************************)
(* IMUReader::hotplugThread(), the health thread.                          *)
(***************************************************************************)
\* lines 410-411: while (running_), then sleep check_interval_
hotplugThread_loop ==
    /\ pc["hotplug"] = "hp_loop"
    /\ Step("hotplug", IF running_ THEN "hp_stat" ELSE "done")

\* lines 413-420
hotplugThread_stat ==
    /\ pc["hotplug"] = "hp_stat"
    /\ need_reconnect' = FALSE
    /\ device_exists' = devicePresent
    /\ Goto("hotplug", "hp_lock")
    /\ ev' = NoEv
    /\ UNCHANGED <<mgrVars, serial_mutex_, parser, cmd, rdLocals,
                   last_device_state, wait_count, rst, envVars, rcVars,
                   seqVars, cntVars, epVars>>
    /\ UNCHANGED fnVars

hotplugThread_lock ==
    /\ Acquire("hotplug", "hp_lock", "hp_cs")

\* lines 426-433: not connected
hotplugThread_checkDown ==
    /\ pc["hotplug"] = "hp_cs"
    /\ ~Usable
    /\ need_reconnect' = device_exists
    /\ Release("hotplug", "check")
    /\ Goto("hotplug", "hp_post")
    /\ UNCHANGED <<mgrVars, parser, cmd, rdLocals, device_exists,
                   last_device_state, wait_count, rst, envVars, rcVars,
                   seqVars, cntVars, epVars>>
    /\ UNCHANGED fnVars

\* a health check that closes the port and forgets connected_ = false
ConnectedAfterCheckLostKept == connected_

\* lines 438 and 458: what a health check that lost the device leaves in
\* connected_
ConnectedAfterCheckLost == FALSE

\* lines 436-449: connected, but the device file is gone
hotplugThread_checkUnplugged ==
    /\ pc["hotplug"] = "hp_cs"
    /\ Usable /\ ~device_exists
    /\ connected_' = ConnectedAfterCheckLost
    /\ serial_' = "closed"
    /\ Release("hotplug", "check_lost")
    /\ Goto("hotplug", "hp_post")
    /\ UNCHANGED <<running_, reconnect_count_, max_reconnect_, parser, cmd,
                   rdLocals, hpLocals, envVars, rcVars, seqVars, cntVars, epVars>>
    /\ UNCHANGED fnVars

\* a catch block of available() that asks for no reconnect
NeedReconnectForgotten == FALSE

\* line 457
NeedReconnectAfterLost == TRUE

\* lines 450-468: connected and the device file exists; available() succeeds
\* or throws; the thread leaves the scope of the lock_guard at "hp_post", or
\* at "hp_lost" when the catch block of line 456 has run
hotplugThread_checkUp ==
    /\ pc["hotplug"] = "hp_cs"
    /\ Usable /\ device_exists
    /\ \/ /\ Release("hotplug", "check")
          /\ Goto("hotplug", "hp_post")
          /\ UNCHANGED <<connected_, serial_, need_reconnect>>
       \/ /\ ~stable
          /\ need_reconnect' = NeedReconnectAfterLost
          /\ connected_' = ConnectedAfterCheckLost
          /\ serial_' = "closed"
          /\ Release("hotplug", "check_lost")
          /\ Goto("hotplug", "hp_lost")
    /\ UNCHANGED <<running_, reconnect_count_, max_reconnect_, parser, cmd,
                   rdLocals, device_exists, last_device_state, wait_count,
                   rst, envVars, rcVars, seqVars, cntVars, epVars>>
    /\ UNCHANGED fnVars

\* line 474: the device file went from absent to present
Reinserted == ~last_device_state /\ device_exists /\ ~connected_

\* lines 474-488
hotplugThread_decide ==
    /\ pc["hotplug"] \in {"hp_post", "hp_lost"}
    /\ Goto("hotplug", IF (need_reconnect \/ Reinserted) /\ running_
                          /\ device_exists
                       THEN "hp_retry" ELSE "hp_loop")
    /\ last_device_state' = device_exists
    /\ need_reconnect' = FALSE
    /\ device_exists' = FALSE
    /\ ev' = NoEv
    /\ UNCHANGED <<mgrVars, serial_mutex_, parser, cmd, rdLocals, wait_count,
                   rst, envVars, rcVars, seqVars, cntVars, epVars>>
    /\ UNCHANGED fnVars

\* line 490: while (running_ && !reconnect())
hotplugThread_retry ==
    /\ pc["hotplug"] = "hp_retry"
    /\ Step("hotplug", IF running_ THEN "rc_guard" ELSE "hp_loop")

\* line 490, reconnect() has returned: true leaves the retry loop
hotplugThread_reconnected ==
    /\ pc["hotplug"] = "rc_ret"
    /\ Goto("hotplug", IF rcResult THEN "hp_loop" ELSE "hp_fail")
    /\ rcOpened' = FALSE /\ rcResult' = FALSE
    /\ cmd' = [cmd EXCEPT !["hotplug"] = 0]
    /\ seqLog' = [seqLog EXCEPT !["hotplug"] = <<>>]
    /\ seqResult' = [seqResult EXCEPT !["hotplug"] = "none"]
    /\ ev' = NoEv
    /\ UNCHANGED <<mgrVars, serial_mutex_, parser, rdLocals, hpLocals,
                   envVars, cntVars, epVars>>
    /\ UNCHANGED fnVars

\* lines 491-505: reconnect() returned false; give up when the device file is
\* gone, else sleep reconnect_interval_ and retry
hotplugThread_failed ==
    /\ pc["hotplug"] = "hp_fail"
    /\ Step("hotplug", IF devicePresent THEN "hp_retry" ELSE "hp_loop")

(***************************************************************************)
(* IMUReader::reconnect(), run by the health thread.                       *)
(***************************************************************************)
\* line 298, reconnect_count_++
CountUp(c) == c + 1

\* the comparison of line 292 off by one, either way
ExhaustedOneLate(m) == reconnect_count_ > m

ExhaustedOneEarly(m) == reconnect_count_ >= m - 1

\* line 292, the right operand of &&: reconnect_count_ >= max_reconnect_,
\* m being what the read of max_reconnect_ gives
Exhausted(m) == reconnect_count_ >= m

\* line 292, the left operand of &&: max_reconnect_ > 0; no limit, so
\* closeSerial() (line 297)
reconnect_guard ==
    /\ pc["hotplug"] = "rc_guard"
    /\ Step("hotplug", IF max_reconnect_ > 0 THEN "rc_limit" ELSE "close_lock")

\* lines 292-297, the right operand: give up when the attempts are used up,
\* else closeSerial().  max_reconnect_ is read a second time, or the value
\* the left operand read (a limit, so MaxReconnectCfg) is used again;
\* initialize() may have assigned it in between.
reconnect_limit ==
    /\ pc["hotplug"] = "rc_limit"
    /\ \E m \in {max_reconnect_, MaxReconnectCfg} :
         Step("hotplug", IF Exhausted(m) THEN "hp_fail" ELSE "close_lock")

reconnect_close_lock ==
    /\ Acquire("hotplug", "close_lock", "close_cs")

\* line 297: closeSerial()
reconnect_close ==
    /\ closeSerial_body("hotplug", "close_cs")
    /\ Goto("hotplug", "rc_inc")
    /\ UNCHANGED <<running_, reconnect_count_, max_reconnect_, parser, cmd,
                   rdLocals, hpLocals, envVars, rcVars, seqVars, cntVars,
                   epVars>>
    /\ UNCHANGED fnVars

\* lines 298-303, after closeSerial() has released the mutex:
\* reconnect_count_++; wait_count = 0
reconnect_countUp ==
    /\ pc["hotplug"] = "rc_inc"
    /\ reconnect_count_' = CountUp(reconnect_count_)
    /\ wait_count' = 0
    /\ Goto("hotplug", "rc_wait")
    /\ ev' = NoEv
    /\ UNCHANGED <<running_, connected_, serial_, max_reconnect_,
                   serial_mutex_, parser, cmd, rdLocals, need_reconnect,
                   device_exists, last_device_state, rst, envVars, rcVars,
                   seqVars, cntVars, epVars>>
    /\ UNCHANGED fnVars

\* lines 305-321: poll for the device file, at most max_wait times and while
\* running_; give up when the polls are used up, else call openSerial()
reconnect_wait ==
    /\ pc["hotplug"] = "rc_wait"
    /\ IF wait_count < MaxWait /\ running_ /\ ~devicePresent
       THEN /\ wait_count' = wait_count + 1
            /\ UNCHANGED <<pc, rcResult, cntVars>>
       ELSE IF wait_count >= MaxWait
       THEN /\ RcReturn(FALSE)
            /\ wait_count' = 0
            /\ UNCHANGED hpOpens
       ELSE /\ Goto("hotplug", "open_lock")
            /\ hpOpens' = Counted(hpOpens)
            /\ wait_count' = 0
            /\ UNCHANGED <<rcResult, failedSince>>
    /\ ev' = NoEv
    /\ UNCHANGED <<mgrVars, serial_mutex_, parser, cmd, rdLocals,
                   need_reconnect, device_exists, last_device_state, rst,
                   envVars, rcOpened, seqVars, epVars>>
    /\ UNCHANGED fnVars

\* line 322, after openSerial() has released the mutex: reconnect_count_ = 0;
\* then reset() is called
reconnect_countZero ==
    /\ pc["hotplug"] = "rc_zero"
    /\ reconnect_count_' = CountAfterOpen(reconnect_count_)
    /\ rst' = ResetCalled
    /\ Goto("hotplug", "rc_reset")
    /\ ev' = NoEv
    /\ UNCHANGED <<running_, connected_, serial_, max_reconnect_,
                   serial_mutex_, parser, cmd, rdLocals, need_reconnect,
                   device_exists, last_device_state, wait_count, envVars,
                   rcVars, seqVars, cntVars, epVars>>
    /\ UNCHANGED fnVars

\* line 323: parser_->reset(), outside the mutex.  A step is one write of
\* reset() (ResetStep); with the last of them reset() returns and the replay
\* begins.
reconnect_reset ==
    /\ pc["hotplug"] = "rc_reset"
    /\ LET t == IF pc["read"] = "rd_feed" THEN Touches(pb)
                ELSE [members |-> {}, cell |-> -1] IN
       \E f \in ResetMoves(rst, t) :
         LET r == ResetStep(parser, rst, f, t.cell)
             last == r.m.todo = {}
         IN /\ parser' = r.p
            /\ rst' = r.m
            /\ rxEp' = IF last THEN "none" ELSE rxEp
            /\ byteEp' = IF last /\ byteEp = "old" THEN "old_reset"
                         ELSE byteEp
            /\ cmd' = [cmd EXCEPT !["hotplug"] = IF last THEN CMD_CONFIG ELSE @]
            /\ seqResult' = [seqResult EXCEPT
                               !["hotplug"] = IF last THEN "run" ELSE @]
            /\ Goto("hotplug", IF last THEN "cmd_lock" ELSE "rc_reset")
    /\ ev' = NoEv
    /\ UNCHANGED <<mgrVars, serial_mutex_, rdLocals, need_reconnect,
                   device_exists, last_device_state, wait_count, envVars,
                   rcVars, cntVars, seqLog>>
    /\ UNCHANGED fnVars

reconnect_failClose_lock ==
    /\ Acquire("hotplug", "fclose_lock", "fclose_cs")

\* lines 332-339: the replay failed: closeSerial() and return false
reconnect_failClose ==
    /\ closeSerial_body("hotplug", "fclose_cs")
    /\ RcReturn(FALSE)
    /\ UNCHANGED <<running_, reconnect_count_, max_reconnect_, parser, cmd,
                   rdLocals, hpLocals, envVars, rcOpened, seqVars, hpOpens,
                   epVars>>
    /\ UNCHANGED fnVars

(***************************************************************************)
(* The environment: the device file appears and disappears.  A removal is  *)
(* a fault of the outage, which has at most MaxFaults of them.             *)
(***************************************************************************)
DeviceUnplug ==
    /\ devicePresent /\ ~stable
    /\ faults < MaxFaults
    /\ devicePresent' = FALSE
    /\ faults' = faults + 1
    /\ ev' = NoEv
    /\ UNCHANGED <<mgrVars, serial_mutex_, parser, pc, cmd, rdLocals, hpLocals,
                   devPos, stable, rcVars, seqVars, cntVars, epVars>>
    /\ UNCHANGED fnVars

DevicePlug ==
    /\ ~devicePresent
    /\ devicePresent' = TRUE
    /\ ev' = NoEv
    /\ UNCHANGED <<mgrVars, serial_mutex_, parser, pc, cmd, rdLocals, hpLocals,
                   devPos, stable, faults, rcVars, seqVars, cntVars, epVars>>
    /\ UNCHANGED fnVars

Next ==
    \/ initialize_call
    \/ start_call
    \/ \E t \in Callers : openSerial_lock(t)
    \/ \E t \in Callers : openSerial_stat(t)
    \/ \E t \in Callers : openSerial_construct(t)
    \/ \E t \in Callers : sendCommand_lock(t)
    \/ \E t \in Callers : sendCommand_body(t)
    \/ start_fails
    \/ start_run
    \/ sendCommand_user
    \/ sendCommand_user_lock
    \/ sendCommand_user_body
    \/ stop_call
    \/ stop_join("read", "join_read", "join_hotplug")
    \/ stop_join("hotplug", "join_hotplug", "close_lock")
    \/ stop_close_lock
    \/ stop_close
    \/ readThread_loop
    \/ readThread_lock
    \/ readThread_notConnected
    \/ readThread_read
    \/ readThread_readThrows
    \/ readThread_wake("rd_sleep_nc", "read_idle")
    \/ readThread_wake("rd_sleep_exc", "read_exc")
    \/ readThread_feed
    \/ readThread_nodata
    \/ hotplugThread_loop
    \/ hotplugThread_stat
    \/ hotplugThread_lock
    \/ hotplugThread_checkDown
    \/ hotplugThread_checkUnplugged
    \/ hotplugThread_checkUp
    \/ hotplugThread_decide
    \/ hotplugThread_retry
    \/ hotplugThread_reconnected
    \/ hotplugThread_failed
    \/ reconnect_guard
    \/ reconnect_limit
    \/ reconnect_close_lock
    \/ reconnect_close
    \/ reconnect_countUp
    \/ reconnect_wait
    \/ reconnect_countZero
    \/ reconnect_reset
    \/ reconnect_failClose_lock
    \/ reconnect_failClose
    \/ DeviceUnplug
    \/ DevicePlug

Spec == Init /\ [][Next]_vars

(***************************************************************************)
(* The manager with a device that streams a sensor report: the acquisition *)
(* thread feeds it to the decoder, which calls the data callback.  The     *)
(* manager was run and stopped before, the decoder having taken all but    *)
(* the last byte of the report (start() does not reset the decoder); the   *)
(* device has that byte to send when pos is MaxBytes and is silent when    *)
(* pos is above.                                                           *)
(***************************************************************************)
RECURSIVE FedParser(_, _)
FedParser(p, q) ==
    IF q = <<>> THEN p ELSE FedParser(ProcessByte(p, Head(q)).p, Tail(q))

InitStream(pos) ==
    /\ running_ = FALSE /\ connected_ = FALSE /\ serial_ = "null"
    /\ serial_mutex_ = "none" /\ reconnect_count_ = 0
    /\ max_reconnect_ \in {0, MaxReconnectCfg}
    /\ parser = FedParser(ParserInit,
                          SubSeq(SensorFrame, 1, Len(SensorFrame) - 1))
    /\ pc = [t \in Threads |-> IF t = "main" THEN "idle" ELSE "off"]
    /\ cmd = [t \in Callers |-> 0]
    /\ byte = 0 /\ bytes_read = 0 /\ pb = PbIdle /\ rst = NoReset
    /\ need_reconnect = FALSE /\ device_exists = FALSE
    /\ last_device_state = FALSE /\ wait_count = 0
    /\ devicePresent \in BOOLEAN /\ devPos = pos
    /\ stable \in BOOLEAN /\ faults = 0
    /\ rcOpened = FALSE /\ rcResult = FALSE
    /\ seqLog = [t \in Callers |-> <<>>]
    /\ seqResult = [t \in Callers |-> "none"]
    /\ failedSince = 0 /\ hpOpens = 0
    /\ rxEp = "old" /\ byteEp = "cur"
    /\ ev = NoEv
    /\ wire = SensorFrame
    /\ call = "none" /\ txRet = "none"
    /\ fed = <<>> /\ rx = "none" /\ sensor = "none"

(***************************************************************************)
(* The manager with a device that recovers for good: Stabilise is the      *)
(* moment from which the device file stays present and the transport       *)
(* works (open(), write(), read() and available() succeed); the device,    *)
(* silent until then, has the last byte of the report to send.  The        *)
(* application starts the manager and leaves it running.  Both threads     *)
(* keep being scheduled (weak fairness of their steps) and a thread that   *)
(* keeps requesting serial_mutex_ gets it (strong fairness of the          *)
(* acquisitions).                                                          *)
(***************************************************************************)
Stabilise ==
    /\ running_ /\ devicePresent /\ ~stable
    /\ stable' = TRUE
    /\ devPos' = MaxBytes
    /\ ev' = NoEv
    /\ UNCHANGED <<mgrVars, serial_mutex_, parser, pc, cmd, rdLocals, hpLocals,
                   devicePresent, faults, rcVars, seqVars, cntVars, epVars>>
    /\ UNCHANGED fnVars

InitLive == InitStream(MaxBytes + 1) /\ ~stable

ReadLock == readThread_lock

ReadSteps ==
    \/ readThread_loop
    \/ readThread_notConnected
    \/ readThread_read
    \/ readThread_readThrows
    \/ readThread_wake("rd_sleep_nc", "read_idle")
    \/ readThread_wake("rd_sleep_exc", "read_exc")
    \/ readThread_feed
    \/ readThread_callback
    \/ readThread_nodata

HotplugLock ==
    \/ hotplugThread_lock
    \/ openSerial_lock("hotplug")
    \/ sendCommand_lock("hotplug")
    \/ reconnect_close_lock
    \/ reconnect_failClose_lock

HotplugSteps ==
    \/ hotplugThread_loop
    \/ hotplugThread_stat
    \/ hotplugThread_checkDown
    \/ hotplugThread_checkUnplugged
    \/ hotplugThread_checkUp
    \/ hotplugThread_decide
    \/ hotplugThread_retry
    \/ hotplugThread_reconnected
    \/ hotplugThread_failed
    \/ reconnect_guard
    \/ reconnect_limit
    \/ reconnect_close
    \/ reconnect_countUp
    \/ reconnect_wait
    \/ reconnect_countZero
    \/ reconnect_reset
    \/ reconnect_failClose
    \/ openSerial_stat("hotplug")
    \/ openSerial_construct("hotplug")
    \/ sendCommand_body("hotplug")

StartSteps ==
    \/ start_call
    \/ openSerial_lock("main")
    \/ openSerial_stat("main")
    \/ openSerial_construct("main")
    \/ sendCommand_lock("main")
    \/ sendCommand_body("main")
    \/ start_fails
    \/ start_run

NextLive ==
    \/ StartSteps
    \/ ReadLock
    \/ ReadSteps
    \/ HotplugLock
    \/ HotplugSteps
    \/ DeviceUnplug
    \/ DevicePlug
    \/ Stabilise

Fairness ==
    /\ WF_vars(ReadSteps)
    /\ SF_vars(ReadLock)
    /\ WF_vars(HotplugSteps)
    /\ SF_vars(HotplugLock)

LiveSpec == InitLive /\ [][NextLive]_vars /\ Fairness

(***************************************************************************)
(* The same manager with a device that has the last byte of the report to  *)
(* send from the start.  The transport may fail, or work from the start.   *)
(***************************************************************************)
InitCallback == InitStream(MaxBytes)

CallbackSpec == InitCallback /\ [][NextLive]_vars

(***************************************************************************)
(* The manager of LiveSpec with an application that may call stop() (and   *)
(* start() again).  stop() itself keeps running once called: join()        *)
(* returns when the thread has ended, and closeSerial() gets the mutex.    *)
(***************************************************************************)
StopJoins ==
    \/ stop_join("read", "join_read", "join_hotplug")
    \/ stop_join("hotplug", "join_hotplug", "close_lock")

NextStop ==
    \/ NextLive
    \/ stop_call
    \/ StopJoins
    \/ stop_close_lock
    \/ stop_close

StopFairness ==
    /\ Fairness
    /\ WF_vars(StopJoins)
    /\ SF_vars(stop_close_lock)
    /\ WF_vars(stop_close)

StopSpec == InitLive /\ [][NextStop]_vars /\ StopFairness

(***************************************************************************)
(* The manager with every user of serial_mutex_ at work: both threads, an  *)
(* application that calls sendCommand(), stop() and start(), and a data    *)
(* callback that returns or calls sendCommand() (lines 162-178) once.  The *)
(* device has the last byte of a sensor report to send, as in              *)
(* CallbackSpec; the device file comes and goes, and the transport works   *)
(* from the start or may fail at any call.                                 *)
(***************************************************************************)
\* the data callback calls sendCommand()
callback_sendCommand ==
    /\ pc["read"] = "rd_cb"
    /\ Step("read", "cb_lock")

callback_sendCommand_lock ==
    /\ Acquire("read", "cb_lock", "cb_cs")

\* lines 165-177; sendCommand() returns and so does the callback
callback_sendCommand_body ==
    /\ pc["read"] = "cb_cs"
    /\ \E wr \in BOOLEAN :
         /\ wr => serial_ = "open"
         /\ (stable /\ serial_ = "open") => wr
         /\ Release("read", IF Refused THEN "cmd_refused"
                            ELSE IF wr THEN "write_ok" ELSE "write_fail")
    /\ Goto("read", "rd_loop")
    /\ UNCHANGED <<mgrVars, parser, cmd, rdLocals, hpLocals, envVars, rcVars,
                   seqVars, cntVars, epVars>>
    /\ UNCHANGED fnVars

NextLock ==
    \/ StartSteps
    \/ ReadLock
    \/ ReadSteps
    \/ HotplugLock
    \/ HotplugSteps
    \/ DeviceUnplug
    \/ DevicePlug
    \/ stop_call
    \/ StopJoins
    \/ stop_close_lock
    \/ stop_close
    \/ callback_sendCommand
    \/ callback_sendCommand_lock
    \/ callback_sendCommand_body
    \/ sendCommand_user
    \/ sendCommand_user_lock
    \/ sendCommand_user_body

LockSpec == InitCallback /\ [][NextLock]_vars

(***************************************************************************)
(* The functions of IMUParser on their own.  In these specifications the   *)
(* manager is as constructed and stays so.                                 *)
(***************************************************************************)
managerVars == <<mgrVars, serial_mutex_, pc, cmd, rdLocals, hpLocals, envVars,
                 rcVars, seqVars, cntVars, epVars, ev>>

\* one state of the manager after construction
ManagerIdle == ManagerInit(1) /\ max_reconnect_ = 0 /\ devicePresent

\* what processByte has returned and forwarded: ret and fwd, its return value
\* and whether it called unpackData; body, the payload it handed over; n, the
\* calls that returned true since the last reset; cbs, the bodies for which
\* the data callback was called since then, in order; prev, rx_state_ before
\* the call; from, where reset() was called ("ctor": never).
RxStart(from) ==
    [ret |-> FALSE, fwd |-> FALSE, body |-> <<>>, n |-> 0, cbs |-> <<>>,
     prev |-> "WAIT_BEGIN", from |-> from]

RxAfter(r, p0) ==
    [ret |-> r.ret, fwd |-> r.fwd, body |-> r.body,
     n |-> rx.n + (IF r.ret THEN 1 ELSE 0),
     cbs |-> IF r.fwd /\ CallbackFires(r.body[1], Len(r.body))
             THEN Append(rx.cbs, r.body) ELSE rx.cbs,
     prev |-> p0.rx_state, from |-> rx.from]

(***************************************************************************)
(* ParserSpec: any bytes of Alphabet, and reset() at any moment.           *)
(***************************************************************************)
\* The two markers, the broadcast address (also an invalid length), and 0 and
\* 1, which serve as address, length, body and checksum.
Alphabet == {CMD_PACKET_BEGIN, CMD_PACKET_END, 255, 0, 1}

InitParser ==
    /\ ManagerIdle
    /\ call = "none" /\ wire = <<>> /\ txRet = "none" /\ sensor = "none"
    /\ fed = <<>> /\ rx = RxStart("ctor")

processByte_any ==
    /\ Len(fed) < MaxFeed
    /\ \E b \in Alphabet :
         LET r == ProcessByte(parser, b) IN
         /\ parser' = r.p
         /\ fed' = Append(fed, b)
         /\ rx' = RxAfter(r, parser)
    /\ UNCHANGED <<managerVars, call, wire, txRet, sensor>>

reset_any ==
    /\ fed # <<>>
    /\ parser' = ParserReset(parser)
    /\ fed' = <<>>
    /\ rx' = RxStart(IF parser.rx_state = "WAIT_BEGIN" THEN "idle"
                     ELSE "frame")
    /\ UNCHANGED <<managerVars, call, wire, txRet, sensor>>

NextParser == processByte_any \/ reset_any

ParserSpec == InitParser /\ [][NextParser]_vars

(***************************************************************************)
(* CodecSpec: one call of packAndSend or sendCommand, or one frame sent by *)
(* the device, and the bytes on the wire given to processByte one by one.  *)
(***************************************************************************)
\* a body of n bytes: base, base + step, ... modulo 256
Body(n, base, step) == [i \in 1..n |-> U8(base + (i - 1) * step)]

\* bodies that start with command 0x11, that hold nothing but start
\* markers, and that wrap around 255
Patterns == {<<17, 1>>, <<CMD_PACKET_BEGIN, 0>>, <<250, 3>>}

Addrs == {0, CMD_PACKET_BEGIN, 254, 255}

\* U8 dLen of packAndSend
PackLens == (0..MaxShort) \cup {CMD_PACKET_MAX_DAT_SIZE_TX,
                                 CMD_PACKET_MAX_DAT_SIZE_TX + 1, 255}

\* size_t len of sendCommand
SendLens == PackLens \cup {256, 256 + 1, 256 + CMD_PACKET_MAX_DAT_SIZE_TX}

\* the length byte of a frame the device sends
DeviceLens == (0..MaxShort) \cup {CMD_PACKET_MAX_DAT_SIZE_RX,
                                   CMD_PACKET_MAX_DAT_SIZE_RX + 1}

HostCalls ==
    [entry : {"packAndSend"}, cmd : {NullPtr}, len : {1}, addr : {0},
     wr : {TRUE}]
    \cup
    {[entry |-> "packAndSend", cmd |-> Ptr(Body(n, pt[1], pt[2])), len |-> n,
      addr |-> a, wr |-> w] :
        n \in PackLens, pt \in Patterns, a \in Addrs, w \in BOOLEAN}
    \cup
    {[entry |-> "sendCommand", cmd |-> Ptr(Body(n, pt[1], pt[2])), len |-> n,
      addr |-> a, wr |-> w] :
        n \in SendLens, pt \in Patterns, a \in Addrs, w \in BOOLEAN}

DeviceCalls ==
    {[entry |-> "device", cmd |-> Ptr(Body(n, pt[1], pt[2])), len |-> n,
      addr |-> a, wr |-> TRUE] :
        n \in DeviceLens, pt \in Patterns \ {<<250, 3>>}, a \in {0, 255}}

\* two frames one after the other, each of them a sensor report of 7 or 8
\* bytes, another command, a sensor report of 6 bytes, or a broadcast
StreamCalls ==
    LET frame(n, base, step, a) ==
            [entry |-> "device", cmd |-> Ptr(Body(n, base, step)), len |-> n,
             addr |-> a, wr |-> TRUE]
        F == {frame(7, 17, 1, 0), frame(8, 17, 3, 0), frame(7, 18, 1, 0),
              frame(6, 17, 1, 0), frame(7, 17, 1, 255)}
    IN  {[entry |-> "stream", frames |-> <<a, b>>] : a \in F, b \in F}

\* the sum of q[lo..hi]
RECURSIVE SumRange(_, _, _)
SumRange(q, lo, hi) ==
    IF lo > hi THEN 0
    ELSE IF lo = hi THEN q[lo]
    ELSE LET mid == (lo + hi) \div 2 IN
         SumRange(q, lo, mid) + SumRange(q, mid + 1, hi)

\* the frame the device puts on the wire for c: its checksum is right
DeviceWire(c) ==
    LET head == <<CMD_PACKET_BEGIN, c.addr, c.len>> \o c.cmd.bytes IN
    head \o <<SumRange(head, 2, Len(head)) % 256, CMD_PACKET_END>>

\* b with bit k inverted
FlipBit(b, k) == IF (b \div (2 ^ k)) % 2 = 1 THEN b - 2 ^ k ELSE b + 2 ^ k

\* IMUReader::sendCommand(cmd, len): len becomes the U8 dLen of packAndSend;
\* the lambda returns 0 when write() wrote every byte (wr) and -1 otherwise
SendCommand(c) ==
    IF Refused THEN [ret |-> FALSE, sent |-> <<>>, calls |-> 0]
    ELSE LET r == PackAndSend(c.cmd, U8(c.len), c.addr,
                              IF c.wr THEN 0 ELSE -1)
         IN  [ret |-> r.ret = 0, sent |-> r.sent, calls |-> r.calls]

InitCodec ==
    /\ ManagerInit(1) /\ max_reconnect_ = 0 /\ devicePresent
    /\ call \in HostCalls \cup DeviceCalls \cup StreamCalls
    /\ wire = <<>> /\ fed = <<>> /\ sensor = "none"
    /\ txRet = [done |-> FALSE, ret |-> FALSE, calls |-> 0, flip |-> <<>>]
    /\ rx = RxStart("ctor")

\* the application owns a manager that is connected, after openSerial()
connect_call ==
    /\ call.entry = "sendCommand" /\ ~txRet.done /\ ~connected_
    /\ connected_' = TRUE /\ serial_' = "open"
    /\ UNCHANGED <<running_, reconnect_count_, max_reconnect_, parser,
                   serial_mutex_, pc, cmd, rdLocals, hpLocals, envVars,
                   rcVars, seqVars, cntVars, epVars, ev, fnVars>>

packAndSend_call ==
    /\ call.entry = "packAndSend" /\ ~txRet.done
    /\ LET r == PackAndSend(call.cmd, call.len, call.addr,
                            IF call.wr THEN 0 ELSE -1)
       IN  /\ wire' = r.sent
           /\ txRet' = [done |-> TRUE, ret |-> r.ret = 0, calls |-> r.calls,
                        flip |-> <<>>]
    /\ UNCHANGED <<managerVars, parser, call, fed, rx, sensor>>

sendCommand_call ==
    /\ call.entry = "sendCommand" /\ ~txRet.done
    /\ LET r == SendCommand(call)
       IN  /\ wire' = r.sent
           /\ txRet' = [done |-> TRUE, ret |-> r.ret, calls |-> r.calls,
                        flip |-> <<>>]
    /\ UNCHANGED <<managerVars, parser, call, fed, rx, sensor>>

device_send ==
    /\ call.entry \in {"device", "stream"} /\ ~txRet.done
    /\ wire' = IF call.entry = "device" THEN DeviceWire(call)
               ELSE DeviceWire(call.frames[1]) \o DeviceWire(call.frames[2])
    /\ txRet' = [done |-> TRUE, ret |-> TRUE, calls |-> 0, flip |-> <<>>]
    /\ UNCHANGED <<managerVars, parser, call, fed, rx, sensor>>

\* the line inverts one bit of a body byte or of the checksum byte of a frame
\* the decoder would accept
wire_flip ==
    /\ call.entry = "device" /\ txRet.done /\ txRet.flip = <<>>
    /\ fed = <<>> /\ rx.from = "ctor"
    /\ ~InvalidLength(call.len) /\ ~IsBroadcast(call.addr)
    /\ \E i \in 4..(Len(wire) - 1), k \in 0..7 :
         /\ wire' = [wire EXCEPT ![i] = FlipBit(@, k)]
         /\ txRet' = [txRet EXCEPT !.flip = <<i, k>>]
    /\ UNCHANGED <<managerVars, parser, call, fed, rx, sensor>>

processByte_call ==
    /\ txRet.done /\ Len(fed) < Len(wire)
    /\ LET r == ProcessByte(parser, wire[Len(fed) + 1]) IN
         /\ parser' = r.p
         /\ fed' = Append(fed, wire[Len(fed) + 1])
         /\ rx' = RxAfter(r, parser)
    /\ UNCHANGED <<managerVars, call, wire, txRet, sensor>>

\* reset() between two bytes of an undamaged transmission
reset_call ==
    /\ txRet.done /\ Len(fed) < Len(wire) /\ rx.from = "ctor"
    /\ txRet.flip = <<>>
    /\ parser' = ParserReset(parser)
    /\ rx' = RxStart(IF fed = <<>> THEN "idle" ELSE "frame")
    /\ UNCHANGED <<managerVars, call, wire, txRet, fed, sensor>>

NextCodec ==
    \/ connect_call
    \/ packAndSend_call
    \/ sendCommand_call
    \/ device_send
    \/ wire_flip
    \/ processByte_call
    \/ reset_call

CodecSpec == InitCodec /\ [][NextCodec]_vars

(***************************************************************************)
(* SensorSpec: unpackData on one body.                                     *)
(***************************************************************************)
\* every choice of the seven groups, and tags with higher bits set
Tags == (0..127) \cup {128 + 66, 256 + 66, 65535 - 127, 65535}

\* buf is &rx_buffer_[3], 75 bytes of which the first dLen are the body:
\* command, tag, timestamp 0x04030201, then bytes that count up from 8 or
\* down from 248 (what follows the body is what the buffer held before)
SensorBody(cmdByte, tag, dLen, up) ==
    [i \in 0..(RxBufferSize - 4) |->
        IF i = 0 THEN cmdByte
        ELSE IF i = 1 THEN tag % 256
        ELSE IF i = 2 THEN tag \div 256
        ELSE IF i <= 6 THEN i - 2
        ELSE IF up THEN i + 1 ELSE 255 - i]

\* unpackData has not been called
NotCalled ==
    [called |-> FALSE, emitted |-> FALSE, tag |-> 0, timestamp |-> 0,
     L |-> 0, data |-> [g \in 1..7 |-> DefaultGroup(g)]]

InitSensor ==
    /\ ManagerIdle
    /\ \E cmdByte \in {17, 18}, tag \in Tags, dLen \in 0..MaxSensorLen,
          up \in BOOLEAN :
         /\ cmdByte = 18 => (tag = 66 /\ up)
         /\ call = [entry |-> "unpackData", dLen |-> dLen, tag |-> tag,
                    buf |-> SensorBody(cmdByte, tag, dLen, up)]
    /\ wire = <<>> /\ txRet = "none" /\ fed = <<>> /\ rx = "none"
    /\ sensor = NotCalled

unpackData_call ==
    /\ ~sensor.called
    /\ sensor' = UnpackData(call.buf, call.dLen)
    /\ UNCHANGED <<managerVars, parser, call, wire, txRet, fed, rx>>

NextSensor == unpackData_call

SensorSpec == InitSensor /\ [][NextSensor]_vars

(***************************************************************************)
(* Properties.                                                             *)
(***************************************************************************)
SumSeq(q) == SumRange(q, 1, Len(q))

\* the last n + 5 bytes of q
LastFrame(q, n) == SubSeq(q, Len(q) - n - 4, Len(q))

\* f is start marker, address (not broadcast), length n, n body bytes, the
\* sum of address, length and body modulo 256, end marker
IsFrame(f, n) ==
    /\ Len(f) = n + 5 /\ n \in 1..CMD_PACKET_MAX_DAT_SIZE_RX
    /\ f[1] = CMD_PACKET_BEGIN /\ f[2] # 255 /\ f[3] = n
    /\ f[n + 4] = SumSeq(SubSeq(f, 2, n + 3)) % 256
    /\ f[n + 5] = CMD_PACKET_END

FrameBody(f) == SubSeq(f, 4, Len(f) - 2)

\* The positions at which a thread is inside a critical section of
\* serial_mutex_, that is, between a lock_guard and the end of its scope.
HandlePcs == {"open_cs", "open_sleep", "close_cs", "fclose_cs", "cmd_cs",
              "ucmd_cs", "rd_cs", "rd_sleep_nc", "rd_sleep_exc", "hp_cs"}

\* The positions of the health thread between the successful return of
\* openSerial() in reconnect() and the end of the replay of the commands.
ReplayWindow == {"rc_zero", "rc_reset", "cmd_lock", "cmd_cs"}

\* The order of the configuration commands.
ConfigOrder == <<CMD_CONFIG, CMD_WAKEUP, CMD_AUTO_REPORT>>

AllSent(log) ==
    /\ Len(log) = 3
    /\ \A i \in 1..3 : log[i].cmd = ConfigOrder[i] /\ log[i].ok

\* The positions of the caller inside stop().
StopPcs == {"join_read", "join_hotplug", "close_lock", "close_cs"}

ThreadsGone == pc["read"] = "off" /\ pc["hotplug"] = "off"

\* C1: no frame the decoder accepts holds bytes of two connection epochs; a
\* byte read before a reconnect's open() is never fed to the decoder after
\* that reconnect's reset(); and no decoder state built from bytes of before
\* the reopen is present when a byte read after the reopen is fed.
C1_FramesWithinOneEpoch ==
    /\ ev.accept # "mixed"
    /\ ev.feed # "stale_byte"
    /\ ev.feed # "stale_state"

\* C2: whenever serial_mutex_ is free, the handle is non-null if and only if
\* connected_ is true.
C2_HandleIffConnected ==
    serial_mutex_ = "none" => ((serial_ # "null") <=> connected_)

\* C2, as the code has it: whenever serial_mutex_ is free, connected_ implies
\* a non-null handle (a non-null handle does not imply connected_).
C2_ConnectedHasHandle ==
    serial_mutex_ = "none" => (connected_ => serial_ # "null")

C2_Witness ==
    /\ serial_mutex_ = "none" /\ connected_ /\ serial_ = "open"
    /\ pc["hotplug"] = "rc_ret" /\ rcResult

\* C3: a thread that is at an operation on the handle holds serial_mutex_,
\* and no two threads are at an operation on the handle at the same time.
C3_HandleOpsUnderMutex ==
    /\ \A t \in Threads : pc[t] \in HandlePcs => serial_mutex_ = t
    /\ \A t, u \in Threads :
         (pc[t] \in HandlePcs /\ pc[u] \in HandlePcs) => t = u

C3_Witness ==
    /\ pc["read"] = "rd_cs" /\ serial_mutex_ = "read"
    /\ pc["hotplug"] = "hp_lock" /\ pc["main"] = "ucmd_lock"

\* C4: between the successful open() of a reconnect and the end of the
\* decoder reset and of the replay of 0x12, 0x03, 0x19 the acquisition thread
\* calls no read() and feeds no byte to the decoder.
C4_NoAcquisitionDuringReplay ==
    pc["hotplug"] \in ReplayWindow => (~ev.read /\ ev.feed = "none")

\* C5: for any max_reconnect, while the manager runs, once the device file
\* stays present and the transport works, the manager eventually is
\* Connected and the acquisition thread eventually reads a byte the device
\* sends.
ReadsByte == ev.read /\ bytes_read = 1

C5_RecoversUnderAnyLimit ==
    /\ (stable /\ running_) ~> connected_
    /\ (stable /\ running_ /\ devPos <= MaxBytes) ~> ReadsByte

\* C5, as the code has it: the same for a manager whose reconnect attempts
\* are not used up when the device recovers (max_reconnect = 0, or fewer
\* than max_reconnect attempts counted).
AttemptsLeft == max_reconnect_ = 0 \/ reconnect_count_ < max_reconnect_

C5_RecoversWhileAttemptsLeft ==
    /\ (stable /\ running_ /\ AttemptsLeft) ~> connected_
    /\ (stable /\ running_ /\ AttemptsLeft /\ devPos <= MaxBytes)
          ~> ReadsByte

C5_Witness ==
    /\ stable /\ running_ /\ max_reconnect_ > 0
    /\ pc["hotplug"] = "rc_ret" /\ rcResult
    /\ connected_ /\ ReadsByte

\* C6: with max_reconnect = N > 0, at most N reconnect attempts end in failure
\* without a successful reconnect between them.
C6_FailedAttemptsBounded ==
    max_reconnect_ > 0 => failedSince <= max_reconnect_

\* C7: with max_reconnect = N > 0, the health thread calls openSerial() at
\* most N times without a success (counted since the limit was set); the
\* attempt counter is never below that number, whatever the device file
\* does; and once the N-th call has failed the manager is Disconnected and
\* reconnect() refuses.
C7_NoOpenAfterExhaustion ==
    max_reconnect_ > 0 =>
        /\ hpOpens <= max_reconnect_
        /\ hpOpens <= reconnect_count_
        /\ (/\ hpOpens = max_reconnect_
            /\ pc["hotplug"] \notin {"open_lock", "open_cs", "open_sleep"})
           => (~connected_ /\ reconnect_count_ >= max_reconnect_)

C7_Witness ==
    /\ max_reconnect_ > 0 /\ hpOpens = max_reconnect_
    /\ pc["hotplug"] = "hp_post" /\ Reinserted

\* C8: every failure of a transport operation (read, write in sendCommand,
\* open) leaves connected_ false when the operation releases the mutex.
C8_FailureLeavesDisconnected ==
    ev.rel \in Failures => ~connected_

\* C9: when reconnect() returns false after its openSerial() succeeded, the
\* handle is discarded and the manager is Disconnected; it returns true only
\* if openSerial() and the three commands succeeded.
C9_FailedReplayCloses ==
    pc["hotplug"] = "rc_ret" =>
        /\ (~rcResult /\ rcOpened) => (serial_ = "null" /\ ~connected_)
        /\ rcResult => (rcOpened /\ AllSent(seqLog["hotplug"]))

C9_Witness ==
    /\ pc["hotplug"] = "rc_ret" /\ ~rcResult /\ rcOpened
    /\ Len(seqLog["hotplug"]) > 0

\* C10: in start() and in reconnect() the commands are written in the order
\* 0x12, 0x03, 0x19, each only after the one before succeeded; after a
\* failure no further command is written and the caller gets a failure.
C10_CommandsInOrder ==
    \A t \in Callers :
        LET log == seqLog[t]
            n == Len(log)
        IN /\ n <= 3
           /\ \A i \in 1..n : /\ log[i].cmd = ConfigOrder[i]
                              /\ i < n => log[i].ok
           /\ (n > 0 /\ ~log[n].ok) => seqResult[t] = "fail"
           /\ seqResult[t] = "ok" => AllSent(log)
           /\ seqResult[t] = "fail" =>
                IF t = "main" THEN pc[t] = "st_ret"
                ELSE \/ pc[t] \in {"fclose_lock", "fclose_cs"}
                     \/ pc[t] = "rc_ret" /\ ~rcResult
           /\ (t = "main" /\ pc[t] = "st_run") => seqResult[t] = "ok"
           /\ (t = "hotplug" /\ pc[t] = "rc_ret" /\ rcResult)
                => seqResult[t] = "ok"

C10_Witness ==
    /\ seqResult["hotplug"] = "fail" /\ Len(seqLog["hotplug"]) = 2
    /\ seqLog["hotplug"][1].ok /\ ~seqLog["hotplug"][2].ok

\* C11: stop() clears running_ first; both threads then end and stop()
\* returns; the final closeSerial() runs after both threads have ended, and
\* when stop() returns the handle is null, the manager is Disconnected and no
\* thread is left to use the transport.
C11_StopJoinsThenCloses ==
    /\ [](pc["main"] \in StopPcs => ~running_)
    /\ [](pc["main"] \in {"close_lock", "close_cs"} => ThreadsGone)
    /\ []((~running_ /\ pc["main"] \notin {"join_read", "join_hotplug"})
            => ThreadsGone)
    /\ [][(pc["main"] = "close_cs" /\ pc'["main"] = "idle")
            => (serial_' = "null" /\ ~connected_' /\ ~running_')]_vars
    /\ (pc["main"] = "join_read")
          ~> (/\ pc["main"] = "idle" /\ ~running_ /\ ThreadsGone
              /\ serial_ = "null" /\ ~connected_)

C11_Witness ==
    /\ pc["main"] = "idle" /\ ~running_ /\ ThreadsGone
    /\ serial_ = "null" /\ ~connected_ /\ reconnect_count_ > 0

\* C13: processByte returns true, and calls unpackData, only at the byte that
\* completes start marker, address other than 255, length in 1..73, that many
\* body bytes, their checksum and the end marker, and hands over that body;
\* after a broadcast address, an invalid length, a checksum byte that does
\* not lead on to the end marker, or any byte in place of the end marker, the
\* state is WAIT_BEGIN (and nothing is forwarded unless the frame completed).
C13_ForwardsOnlyWholeFrames ==
    LET last == fed[Len(fed)] IN
    /\ rx.ret = rx.fwd
    /\ rx.ret =>
         \E n \in 1..CMD_PACKET_MAX_DAT_SIZE_RX :
             /\ Len(fed) >= n + 5
             /\ IsFrame(LastFrame(fed, n), n)
             /\ rx.body = FrameBody(LastFrame(fed, n))
             /\ parser.rx_index = n + 5
    /\ fed # <<>> =>
         /\ (rx.prev = "ADDRESS" /\ last = 255)
               => (parser.rx_state = "WAIT_BEGIN" /\ ~rx.ret)
         /\ (rx.prev = "LENGTH" /\ (last = 0 \/ last > 73))
               => (parser.rx_state = "WAIT_BEGIN" /\ ~rx.ret)
         /\ rx.prev = "CHECKSUM"
               => LET k == IF parser.rx_state = "END" THEN parser.rx_index
                           ELSE parser.rx_index + 1
                      sum == SumSeq(SubSeq(fed, Len(fed) - k + 2,
                                           Len(fed) - 1)) % 256
                  IN  /\ parser.rx_state = (IF last = sum THEN "END"
                                            ELSE "WAIT_BEGIN")
                      /\ ~rx.ret
         /\ rx.prev = "END"
               => (parser.rx_state = "WAIT_BEGIN"
                   /\ (rx.ret => last = CMD_PACKET_END))
         /\ rx.prev # "END" => ~rx.ret

C13_Witness ==
    /\ rx.ret /\ Len(fed) = 7 /\ fed[1] = CMD_PACKET_END
    /\ rx.body = <<255>>

\* C16: after reset(), from whatever state, the bytes of a well-formed frame
\* make processByte accept that frame, once, with its body, as a parser just
\* constructed does; a second reset() changes nothing.
C16_ResetThenFrameDecodes ==
    /\ (\E n \in 1..CMD_PACKET_MAX_DAT_SIZE_RX : IsFrame(fed, n))
         => (rx.ret /\ rx.fwd /\ rx.n = 1 /\ rx.body = FrameBody(fed))
    /\ ParserReset(ParserReset(parser)) = ParserReset(parser)
    /\ (fed = <<>> /\ rx.from # "ctor")
         => /\ parser.rx_state = ParserInit.rx_state
            /\ parser.rx_index = ParserInit.rx_index
            /\ parser.rx_cmd_len = ParserInit.rx_cmd_len
            /\ parser.rx_checksum = ParserInit.rx_checksum
            /\ \A i \in DOMAIN parser.rx_buffer : parser.rx_buffer[i] = 0

C16_Witness ==
    /\ rx.from = "frame" /\ rx.ret /\ rx.n = 1
    /\ \E n \in 1..CMD_PACKET_MAX_DAT_SIZE_RX : IsFrame(fed, n)

\* the frame packAndSend is to build for body and addr
ExpectedPacket(body, addr) ==
    [i \in 1..46 |-> 0]
    \o <<0, 255, 0, 255, CMD_PACKET_BEGIN, addr, Len(body)>>
    \o body
    \o <<(addr + Len(body) + SumSeq(body)) % 256, CMD_PACKET_END>>

\* packAndSend was called with a body of 1..31 bytes
PackedBody ==
    /\ call.entry = "packAndSend" /\ txRet.done /\ ~call.cmd.null
    /\ call.len \in 1..CMD_PACKET_MAX_DAT_SIZE_TX

\* every byte on the wire went into a parser that was new or reset before
\* the first of them
FedWhole == fed = wire /\ rx.from \in {"ctor", "idle"}

RoundTrip ==
    /\ rx.ret /\ rx.fwd /\ rx.n = 1
    /\ rx.body = call.cmd.bytes
    /\ rx.body[1] = call.cmd.bytes[1]

\* C12: for every body of 1..31 bytes and every address in 0..255, the bytes
\* packAndSend hands to the transmit function, fed in order to a fresh
\* parser, make it accept exactly one frame, with that body.
C12_RoundTripAnyAddress ==
    (PackedBody /\ FedWhole) => RoundTrip

\* C12, as the code has it: the same for every address in 0..254.
C12_RoundTripUnicast ==
    (PackedBody /\ FedWhole /\ call.addr \in 0..254) => RoundTrip

C12_Witness ==
    /\ PackedBody /\ FedWhole /\ call.addr = 254
    /\ call.len = CMD_PACKET_MAX_DAT_SIZE_TX /\ rx.n = 1
    /\ rx.body[1] = CMD_PACKET_BEGIN

\* C14: when one bit of a body byte or of the checksum byte of a well-formed
\* frame is inverted, processByte returns false for every byte of the
\* frame, unpackData is not called, and the parser is in WAIT_BEGIN after
\* the last byte.
C14_SingleBitFlipRejected ==
    txRet.flip # <<>> =>
        /\ ~rx.ret /\ ~rx.fwd /\ rx.n = 0
        /\ fed = wire => parser.rx_state = "WAIT_BEGIN"

C14_Witness ==
    /\ txRet.flip = <<Len(wire) - 1, 7>> /\ fed = wire
    /\ call.len = CMD_PACKET_MAX_DAT_SIZE_RX

\* C15: rx_index_ never exceeds 78, so that every write, made at
\* rx_index_ - 1, is below the capacity; a length byte of 0 or above 73
\* leaves the parser in WAIT_BEGIN, and in WAIT_BEGIN nothing is buffered
\* but a start marker.
C15_BufferWithinCapacity ==
    /\ [](parser.rx_index <= RxBufferSize)
    /\ [][(fed' # fed /\ parser.rx_state = "LENGTH"
            /\ (fed'[Len(fed')] = 0
                \/ fed'[Len(fed')] > CMD_PACKET_MAX_DAT_SIZE_RX))
           => parser'.rx_state = "WAIT_BEGIN"]_vars
    /\ [][(fed' # fed /\ parser.rx_state = "WAIT_BEGIN"
            /\ fed'[Len(fed')] # CMD_PACKET_BEGIN)
           => (/\ parser'.rx_state = "WAIT_BEGIN"
               /\ parser'.rx_buffer = parser.rx_buffer
               /\ parser'.rx_index = parser.rx_index)]_vars

C15_Witness ==
    /\ parser.rx_index = RxBufferSize /\ rx.ret
    /\ parser.rx_buffer[RxBufferSize - 1] = CMD_PACKET_END

\* C17: a call of sendCommand or packAndSend with a length of 0 or above 31
\* reports failure and hands no byte to the transmit function.
C17_BadLengthNeverSent ==
    (txRet.done /\ call.entry \in {"packAndSend", "sendCommand"}
     /\ (call.len = 0 \/ call.len > CMD_PACKET_MAX_DAT_SIZE_TX))
        => (~txRet.ret /\ txRet.calls = 0 /\ wire = <<>>)

\* C18: for a body of 1..31 bytes packAndSend calls the transmit function
\* once, with 46 zero bytes, 00 FF 00 FF, 0x49, the address, the length, the
\* body, the sum of address, length and body modulo 256, and 0x4D, 55 + len
\* bytes in all, and returns what the transmit function returned.
C18_PacketLayout ==
    PackedBody =>
        /\ txRet.calls = 1
        /\ Len(wire) = 55 + call.len
        /\ wire = ExpectedPacket(call.cmd.bytes, call.addr)
        /\ txRet.ret = call.wr

C18_Witness ==
    /\ PackedBody /\ call.len = CMD_PACKET_MAX_DAT_SIZE_TX /\ ~call.wr
    /\ call.addr = 255 /\ Len(wire) = 86

\* the widths of the groups in bit order
Widths == <<6, 6, 6, 6, 8, 8, 6>>

SelectedGroups(tag) == {g \in 1..7 : (tag \div (2 ^ (g - 1))) % 2 = 1}

\* the total width of the groups of G below g
WidthBelow(G, g) ==
    SumSeq([h \in 1..7 |-> IF h \in G /\ h < g THEN Widths[h] ELSE 0])

Signed16(lo, hi) ==
    IF hi >= 128 THEN hi * 256 + lo - 65536 ELSE hi * 256 + lo

\* unpackData was given a 0x11 body of at least 7 bytes
SensorParsed ==
    /\ sensor.called /\ call.buf[0] = 17 /\ call.dLen >= 7

\* C19: when the body is long enough for all the groups its tag selects,
\* each selected group is read at 7 plus the widths of the selected groups
\* with lower bits, the others keep their defaults, and the cursor ends at 7
\* plus the selected widths; with tag 0x42 acceleration with gravity is
\* bytes 7..12 and Euler angles bytes 13..18.
C19_GroupsAtCumulativeOffsets ==
    LET G == SelectedGroups(call.tag) IN
    (SensorParsed /\ call.dLen >= 7 + WidthBelow(G, 8)) =>
        /\ sensor.emitted /\ sensor.tag = call.tag
        /\ sensor.L = 7 + WidthBelow(G, 8)
        /\ \A g \in 1..7 :
             sensor.data[g] =
                IF g \in G THEN DecodeGroup(g, call.buf, 7 + WidthBelow(G, g))
                ELSE DefaultGroup(g)
        /\ call.tag = 66 =>
             /\ sensor.data[2] = <<Signed16(call.buf[7], call.buf[8]),
                                   Signed16(call.buf[9], call.buf[10]),
                                   Signed16(call.buf[11], call.buf[12])>>
             /\ sensor.data[7] = <<Signed16(call.buf[13], call.buf[14]),
                                   Signed16(call.buf[15], call.buf[16]),
                                   Signed16(call.buf[17], call.buf[18])>>
             /\ \A g \in (1..7) \ {2, 7} : sensor.data[g] = DefaultGroup(g)

C19_Witness ==
    /\ SensorParsed /\ call.tag = 66 /\ call.dLen = 19
    /\ sensor.emitted /\ sensor.L = 19
    /\ sensor.data[7] = <<Signed16(242, 241), Signed16(240, 239),
                          Signed16(238, 237)>>

\* the first group, in bit order, that the tag selects and the body is too
\* short for, the cursor moving past the selected groups before it; 8 if
\* there is none
FirstShort(tag, dLen) ==
    LET G == SelectedGroups(tag)
        short == {g \in G : 7 + WidthBelow(G, g) + Widths[g] > dLen}
    IN  IF short = {} THEN 8 ELSE CHOOSE g \in short : \A h \in short : g <= h

\* C20: when a 0x11 body of at least 7 bytes is too short for a selected
\* group, that group and every later one keep their defaults, the groups
\* before it are decoded, and the sample is emitted.
C20_TruncatedStopsDecoding ==
    LET G == SelectedGroups(call.tag)
        f == FirstShort(call.tag, call.dLen)
    IN
    (SensorParsed /\ f <= 7) =>
        /\ sensor.emitted
        /\ \A g \in 1..7 :
             sensor.data[g] =
                IF g \in G /\ g < f
                THEN DecodeGroup(g, call.buf, 7 + WidthBelow(G, g))
                ELSE DefaultGroup(g)

\* the g-th group of the sample holds values read from the body (no byte of
\* the bodies drawn is 0, so that a group read is not at its default)
Populated(g) == sensor.data[g] # DefaultGroup(g)

\* C21: in a sample given to the callback, a group holds decoded values if
\* and only if its bit is set in the sample's subscribe_tag.
C21_TagTellsPopulated ==
    sensor.emitted =>
        \A g \in 1..7 :
            Populated(g) <=> (sensor.tag \div (2 ^ (g - 1))) % 2 = 1

\* the offset the g-th group was read at: 7 plus the widths of the groups
\* populated before it
ReadAt(g) ==
    7 + SumSeq([h \in 1..7 |-> IF h < g /\ Populated(h) THEN Widths[h] ELSE 0])

\* C28: parseSensorData reads a group only where cursor + width <= dLen,
\* so that every index read is below dLen, and the cursor ends between 7
\* and dLen.
C28_ReadsWithinBody ==
    SensorParsed =>
        /\ sensor.emitted
        /\ 7 <= sensor.L /\ sensor.L <= call.dLen
        /\ sensor.L = ReadAt(8)
        /\ \A g \in 1..7 :
             Populated(g) =>
                /\ sensor.data[g] = DecodeGroup(g, call.buf, ReadAt(g))
                /\ ReadAt(g) + Widths[g] <= call.dLen

C28_Witness ==
    /\ SensorParsed /\ call.tag = 65535 /\ call.dLen = 52
    /\ sensor.L = 47 /\ ~Populated(7)

\* the device frame c is one processByte accepts, with command 0x11 and a
\* body of at least 7 bytes
IsSensorReport(c) ==
    /\ c.addr # 255 /\ c.len \in 7..CMD_PACKET_MAX_DAT_SIZE_RX
    /\ c.cmd.bytes[1] = 17

\* the bodies of the sensor reports among the frames cs, in order
RECURSIVE ReportsOf(_)
ReportsOf(cs) ==
    IF cs = <<>> THEN <<>>
    ELSE (IF IsSensorReport(Head(cs)) THEN <<Head(cs).cmd.bytes>> ELSE <<>>)
         \o ReportsOf(Tail(cs))

\* C22: the data callback is called once for each accepted frame with
\* command 0x11 and a body of at least 7 bytes, in the order in which the
\* frames complete, and not at all for another accepted frame or for a
\* rejected one.
C22_CallbackOncePerReport ==
    (txRet.done /\ call.entry \in {"device", "stream"} /\ rx.from = "ctor")
      => /\ Len(rx.cbs) <= rx.n
         /\ txRet.flip # <<>> => rx.cbs = <<>>
         /\ (fed = wire /\ txRet.flip = <<>>) =>
               rx.cbs = ReportsOf(IF call.entry = "stream" THEN call.frames
                                  ELSE <<call>>)

C22_Witness ==
    /\ call.entry = "stream" /\ fed = wire /\ wire # <<>>
    /\ rx.from = "ctor" /\ rx.n = 2
    /\ rx.cbs = <<Body(8, 17, 3), Body(7, 17, 1)>>

\* The positions at which the acquisition thread is in a call of the
\* decoder: processByte (line 392) and the callback it invokes.
InDecoder == {"rd_feed", "rd_cb"}

\* C24: the decoder is used by one thread at a time: the health thread is
\* never in the parser's reset(), some of its writes made and some to come,
\* while the acquisition thread is inside processByte(), its first access
\* made, or in the callback it invokes.
C24_DecoderOneThread ==
    ~(/\ pc["hotplug"] = "rc_reset" /\ rst.todo # ResetCalled.todo
      /\ pc["read"] \in InDecoder
      /\ pc["read"] = "rd_feed" => pb.at # "off")

\* The positions at which a thread is in a timed sleep: the acquisition
\* loop (not connected, after a read exception, after an empty read),
\* openSerial() and the health loop.
SleepPcs == {"rd_sleep_nc", "rd_sleep_exc", "rd_nodata", "open_sleep",
             "hp_stat"}

\* C25: no thread is in a timed sleep while it holds serial_mutex_.
C25_NoSleepUnderMutex ==
    \A t \in Threads : pc[t] \in SleepPcs => serial_mutex_ # t

\* C30: whenever serial_mutex_ is free, connected_ implies a handle that is
\* non-null and open: a handle that was closed or discarded is not left
\* marked Connected once the mutex has been released.
C30_ConnectedHandleOpen ==
    serial_mutex_ = "none" =>
        /\ connected_ => serial_ = "open"
        /\ serial_ \in {"null", "closed"} => ~connected_

C30_Witness ==
    /\ serial_mutex_ = "none" /\ serial_ = "closed" /\ ~connected_
    /\ pc["hotplug"] = "hp_post" /\ need_reconnect /\ running_

\* The health thread begins a call of openSerial() or the write of a
\* configuration command: it arrives at the lock_guard of the one or the
\* other.
HealthBegins ==
    /\ pc'["hotplug"] # pc["hotplug"]
    /\ pc'["hotplug"] \in {"open_lock", "cmd_lock"}

\* C29: once stop() has cleared running_ the health thread begins no open()
\* of the transport and no write of a configuration command: each of them
\* begins while running_ is still set.
C29_HealthActsOnlyWhileRunning ==
    [][HealthBegins => running_]_vars

\* The acquisition thread calls read() on the transport: it leaves the
\* critical section of line 365 with a byte, with none, or by the exception.
ReadCalled ==
    /\ pc["read"] = "rd_cs"
    /\ pc'["read"] \in {"rd_feed", "rd_nodata", "rd_sleep_exc"}

\* C27: the acquisition thread never opens the transport; a read of zero
\* bytes leaves connected_, the handle and the decoder as they were; a read
\* exception leaves connected_ false, the acquisition thread calls read() only
\* while connected_ is true, and while it lives connected_ turns true only
\* by the openSerial() of the health thread's reconnect().
C27_AcquisitionNeverReopens ==
    /\ [][(serial_' = "open" /\ serial_ # "open")
            => pc'["read"] = pc["read"]]_vars
    /\ [][(ReadCalled /\ pc'["read"] = "rd_nodata")
            => (/\ connected_' = connected_ /\ serial_' = serial_
                /\ parser' = parser)]_vars
    /\ [][(pc["read"] = "rd_nodata" /\ pc'["read"] # "rd_nodata")
            => (/\ connected_' = connected_ /\ serial_' = serial_
                /\ parser' = parser)]_vars
    /\ [][(ReadCalled /\ pc'["read"] = "rd_sleep_exc") => ~connected_']_vars
    /\ [][ReadCalled => (connected_ /\ serial_ = "open")]_vars
    /\ [][(~connected_ /\ connected_' /\ pc["read"] \notin {"off", "done"})
            => (pc["hotplug"] = "open_sleep"
                /\ pc'["hotplug"] = "rc_zero")]_vars

C27_Witness ==
    /\ pc["read"] = "rd_sleep_nc" /\ serial_mutex_ = "read"
    /\ serial_ = "closed" /\ ~connected_
    /\ pc["hotplug"] = "rc_guard" /\ running_

\* The health thread ends its check of lines 422-471, made while Connected
\* (is_connected of line 426).
CheckedConnected ==
    /\ pc["hotplug"] = "hp_cs" /\ pc'["hotplug"] \in {"hp_post", "hp_lost"}
    /\ Usable

\* The check ends Disconnected with the port closed.
CheckLost == ~connected_' /\ serial_' = "closed"

\* The check leaves connected_ and the handle as they were.
CheckKept == connected_' = connected_ /\ serial_' = serial_

\* What every check made while Connected does: with the device file absent
\* it ends Disconnected and closed, asks for no reconnect, and the cycle
\* ends without a call of reconnect() or openSerial(); with the file present
\* it either leaves state and handle unchanged (available() succeeded) or
\* ends Disconnected and closed and asks for a reconnect (available() threw).
CheckOutcomes ==
    /\ [][(CheckedConnected /\ ~device_exists)
            => (CheckLost /\ ~need_reconnect'
                /\ pc'["hotplug"] = "hp_post")]_vars
    /\ [][(pc["hotplug"] = "hp_post" /\ ~device_exists
           /\ pc'["hotplug"] # "hp_post") => pc'["hotplug"] = "hp_loop"]_vars
    /\ [][(CheckedConnected /\ device_exists)
            => \/ /\ CheckKept /\ ~need_reconnect'
                  /\ pc'["hotplug"] = "hp_post"
               \/ /\ CheckLost /\ need_reconnect'
                  /\ pc'["hotplug"] = "hp_lost"]_vars

\* The health thread goes on after a check in which available() threw.
AfterLost == pc["hotplug"] = "hp_lost" /\ pc'["hotplug"] # "hp_lost"

\* C26: at each health check made while Connected: device file absent, the
\* check ends Disconnected and closed and no open() is attempted in that
\* cycle; file present and available() fails, the check ends Disconnected and
\* closed and the thread goes to its calls of reconnect() in that same cycle;
\* file present and available() succeeds, state and handle are unchanged.
C26_HealthCheckOutcomes ==
    /\ CheckOutcomes
    /\ [][AfterLost => pc'["hotplug"] = "hp_retry"]_vars

\* C26, as the code has it: the same, reconnect() being called in that cycle
\* provided running_ is still set at the tests of lines 481 and 490.
C26_OutcomesWhileRunning ==
    /\ CheckOutcomes
    /\ [][(AfterLost /\ running_) => pc'["hotplug"] = "hp_retry"]_vars
    /\ [][(pc["hotplug"] = "hp_retry" /\ running_
           /\ pc'["hotplug"] # "hp_retry") => pc'["hotplug"] = "rc_guard"]_vars

C26_Witness ==
    /\ pc["hotplug"] = "hp_lost" /\ need_reconnect /\ device_exists
    /\ devicePresent /\ running_ /\ ~connected_ /\ serial_ = "closed"
    /\ pc["read"] = "rd_lock"

\* The call of processByte the acquisition thread is in has accepted a
\* frame and hands unpackData a sensor report: command 0x11 and a body of
\* at least 7 bytes.
CompletesReport ==
    /\ pc["read"] = "rd_feed" /\ pb.at = "call"
    /\ pb.cmd = 17 /\ pb.dlen >= 7

\* C23: while the data callback runs the acquisition thread does not hold
\* serial_mutex_; the callback runs in the call of processByte that hands
\* the report to unpackData, and it returns before the acquisition thread
\* calls read() again.
C23_CallbackOutsideMutex ==
    /\ [](pc["read"] = "rd_cb" => serial_mutex_ # "read")
    /\ [][(CompletesReport /\ pc'["read"] # "rd_feed")
            => pc'["read"] = "rd_cb"]_vars
    /\ [][pc["read"] = "rd_cb" => ~ev'.read]_vars
    /\ [][(pc["read"] = "rd_cb" /\ pc'["read"] # "rd_cb")
            => pc'["read"] = "rd_loop"]_vars
    /\ [][ev'.read => pc["read"] = "rd_cs"]_vars

C23_Witness ==
    /\ pc["read"] = "rd_cb" /\ serial_mutex_ = "hotplug"
    /\ pc["hotplug"] = "hp_cs" /\ connected_ /\ running_

\* C32: when start() returns false the manager is not running, neither
\* thread is started, the transport is closed and the manager is
\* Disconnected; start() goes on to start the threads only when open and the
\* three commands succeeded.
C32_FailedStartLeavesClosed ==
    /\ pc["main"] = "st_ret" =>
         /\ ~running_ /\ pc["read"] = "off" /\ pc["hotplug"] = "off"
         /\ serial_ # "open" /\ ~connected_
    /\ pc["main"] = "st_run" =>
         (connected_ /\ serial_ = "open" /\ AllSent(seqLog["main"]))

\* The positions at which a thread requests serial_mutex_.
LockPcs == {"open_lock", "close_lock", "fclose_lock", "cmd_lock", "ucmd_lock",
            "rd_lock", "hp_lock", "cb_lock"}

\* The positions inside a critical section, that of a sendCommand() called
\* by the data callback included.
HeldPcs == HandlePcs \cup {"cb_cs"}

\* The steps that run the body of a critical section or end a sleep inside
\* one.
SectionSteps ==
    \/ \E t \in Callers : \/ openSerial_stat(t)
                           \/ openSerial_construct(t)
                           \/ sendCommand_body(t)
    \/ sendCommand_user_body
    \/ callback_sendCommand_body
    \/ stop_close
    \/ reconnect_close
    \/ reconnect_failClose
    \/ readThread_notConnected
    \/ readThread_read
    \/ readThread_readThrows
    \/ readThread_wake("rd_sleep_nc", "read_idle")
    \/ readThread_wake("rd_sleep_exc", "read_exc")
    \/ hotplugThread_checkDown
    \/ hotplugThread_checkUnplugged
    \/ hotplugThread_checkUp

\* The steps a thread at position p of a critical section takes at most
\* until it releases the mutex.
StepsToRelease(p) == IF p \in {"open_cs", "rd_cs"} THEN 2 ELSE 1

\* C31: the manager never deadlocks on serial_mutex_, whatever the
\* acquisition thread, the health thread, sendCommand callers (the data
\* callback among them) and stop() do: no thread requests the mutex while
\* it holds it; the mutex is held by a thread exactly while the thread is
\* inside a critical section, never by stop() while it joins the threads;
\* the holder is never blocked, its next step being enabled; and every
\* step of the holder brings it nearer to the end of the critical section,
\* on every path, so that every acquisition is released.
C31_NoDeadlock ==
    /\ [](\A t \in Threads : pc[t] \in LockPcs => serial_mutex_ # t)
    /\ [](\A t \in Threads : serial_mutex_ = t <=> pc[t] \in HeldPcs)
    /\ [](pc["main"] \in {"join_read", "join_hotplug"}
            => serial_mutex_ # "main")
    /\ [](serial_mutex_ # "none" => ENABLED SectionSteps)
    /\ [][\A t \in Threads :
            (serial_mutex_ = t /\ serial_mutex_' = t /\ pc'[t] # pc[t])
               => StepsToRelease(pc'[t]) < StepsToRelease(pc[t])]_vars

C31_Witness ==
    /\ pc["read"] = "cb_lock" /\ serial_mutex_ = "hotplug"
    /\ pc["hotplug"] = "open_sleep" /\ pc["main"] = "join_read"

====
